---- MODULE Spec2Model ----
(***************************************************************************)
(* Bolig Analyse Dashboard Generator: the column resolver, the address     *)
(* helpers and the two spreadsheet pipelines of generate_dashboard.py.     *)
(*                                                                         *)
(* A spreadsheet cell is a tagged record: NaN (an empty cell), Num(n) (a   *)
(* numeric cell; the model keeps numeric cells integral) or Str(s).        *)
(* A DataFrame is [columns, rows]: the ordered column names and the rows,  *)
(* each row a function from column name to cell.                           *)
(***************************************************************************)
EXTENDS Integers, Sequences, FiniteSets, TLC

VARIABLES
    fc_columns,     \* find_column: df.columns of the table searched
    fc_names,       \* find_column: possible_names
    fc_result,      \* find_column: what the call did (return / raise, stdout)
    er_area,        \* estimate_rooms: a pair of areas
    er_rooms,       \* estimate_rooms: the pair of estimates
    leje_sheet,     \* the sheet pd.read_excel gives process_leje_data
    leje_data,      \* what process_leje_data did with it
    ejer_book,      \* the workbook given to process_ejer_data
    ejer_data,      \* what process_ejer_data did with it
    prev_data,      \* the result of the run before the rows were reordered
    reclean,        \* the cleaning step applied again to a cleaned table
    ad_text,        \* the cell given to the address helpers
    ad_city,        \* what parse_city_from_handelsnavn did with it
    ad_coords,      \* what geocode_address did with it
    m_front,        \* the front end of a run: the command line or the upload page
    m_argc,         \* len(sys.argv) of the command line
    m_writable,     \* whether the output path can be opened for writing
    m_pc,           \* where the run is
    m_calls,        \* the calls the run has made, in their order
    m_files,        \* the files the run has left on disk
    m_end,          \* how the run ended
    lejeData,       \* the report page: lejeData.boliger
    ejerData,       \* the report page: ejerData.boliger
    currentMode,    \* the report page: the mode shown
    allBoliger,     \* the report page: the listings of the mode shown
    selectedFilters,\* the report page: the active filter values
    year_slider,    \* the report page: the two range inputs and their container
    filtered,       \* the listings updateDisplay and updateInteractiveCharts kept
    js_event        \* the handler of the report page that ran last

resolverVars == <<fc_columns, fc_names, fc_result>>
roomsVars == <<er_area, er_rooms>>
pipelineVars == <<leje_sheet, leje_data, ejer_book, ejer_data, prev_data, reclean>>
addressVars == <<ad_text, ad_city, ad_coords>>
mainVars == <<m_front, m_argc, m_writable, m_pc, m_calls, m_files, m_end>>
reportVars == <<lejeData, ejerData, currentMode, allBoliger, selectedFilters, year_slider,
                filtered, js_event>>
vars == <<resolverVars, roomsVars, pipelineVars, addressVars, mainVars, reportVars>>

(***************************************************************************)
(* Cells                                                                   *)
(***************************************************************************)
NaN == [t |-> "nan"]
Num(n) == [t |-> "num", n |-> n]
Str(s) == [t |-> "str", s |-> s]

\* pd.isna / pd.notna on a scalar cell
isna(c) == c.t = "nan"
notna(c) == ~isna(c)

NotCalled == [kind |-> "not called"]

(***************************************************************************)
(* Sequence helpers                                                        *)
(***************************************************************************)
Range(s) == {s[i] : i \in DOMAIN s}

\* all sequences over S of length 0..n
SeqUpTo(S, n) == UNION {[1..k -> S] : k \in 0..n}

\* sequences without a repeated element (column names of a sheet are distinct)
Distinct(s) == \A i, j \in DOMAIN s : i # j => s[i] # s[j]

(***************************************************************************)
(* find_column (generate_dashboard.py 404-416)                             *)
(***************************************************************************)
\* `name in df.columns` for the first such name of possible_names
FirstPresent(names, columns) ==
    LET hits == {i \in DOMAIN names : names[i] \in Range(columns)}
    IN  IF hits = {} THEN 0
        ELSE CHOOSE i \in hits : \A j \in hits : i <= j

\* a mutant: the diagnostic lists the columns last-to-first
find_column_stdout_reversed(columns, possible_names) ==
    <<[line |-> "FEJL", names |-> possible_names],
      [line |-> "Tilgaengelige kolonner"]>>
    \o [i \in 1..Len(columns) |->
           [line |-> "kolonne", i |-> i, col |-> columns[Len(columns) + 1 - i]]]
    \o <<[line |-> "TIP"]>>

\* the lines printed before the KeyError is raised (411-415)
find_column_stdout(columns, possible_names) ==
    <<[line |-> "FEJL", names |-> possible_names],
      [line |-> "Tilgaengelige kolonner"]>>
    \o [i \in 1..Len(columns) |-> [line |-> "kolonne", i |-> i, col |-> columns[i]]]
    \o <<[line |-> "TIP"]>>

\* a mutant: the search runs over df.columns and returns the first column
\* that is a candidate
find_column_by_table_order(columns, possible_names) ==
    LET i == FirstPresent(columns, possible_names)
    IN  IF i # 0
        THEN [kind |-> "return", value |-> columns[i], stdout |-> <<>>]
        ELSE [kind |-> "raise",
              exc |-> [type |-> "KeyError", possible_names |-> possible_names],
              stdout |-> find_column_stdout(columns, possible_names)]

find_column(columns, possible_names) ==
    LET i == FirstPresent(possible_names, columns)
    IN  IF i # 0
        THEN [kind |-> "return", value |-> possible_names[i], stdout |-> <<>>]
        ELSE [kind |-> "raise",
              exc |-> [type |-> "KeyError", possible_names |-> possible_names],
              stdout |-> find_column_stdout(columns, possible_names)]

(***************************************************************************)
(* estimate_rooms (generate_dashboard.py 503-513)                          *)
(***************************************************************************)
\* Python's `area < k` on a cell: every comparison with NaN is False
lt(c, k) == c.t = "num" /\ c.n < k

\* a mutant: the first boundary is inclusive
estimate_rooms_le(area) ==
    IF lt(area, 51) THEN 2
    ELSE IF lt(area, 75) THEN 3
    ELSE IF lt(area, 100) THEN 4
    ELSE IF lt(area, 125) THEN 5
    ELSE 6

estimate_rooms(area) ==
    IF lt(area, 50) THEN 2
    ELSE IF lt(area, 75) THEN 3
    ELSE IF lt(area, 100) THEN 4
    ELSE IF lt(area, 125) THEN 5
    ELSE 6

(***************************************************************************)
(* Python scalars                                                          *)
(***************************************************************************)
\* None, and a float kept exact as the fraction num/den
PyNone == [t |-> "None"]
Frac(num, den) == [t |-> "frac", num |-> num, den |-> den]

\* int(a / b) for b > 0: the float quotient truncated toward zero
TruncDiv(a, b) == IF a >= 0 THEN a \div b ELSE -((-a) \div b)

\* texts are sequences of characters
T_nan == <<"n", "a", "n">>
T_IkkeAngivet == <<"I", "k", "k", "e", " ", "a", "n", "g", "i", "v", "e", "t">>

\* str(cell) of a text cell; str(float('nan')) is 'nan'
str(c) == IF c.t = "str" THEN c.s ELSE T_nan

\* int(cell) of a numeric cell
int(c) == c.n

\* A coordinate cell: the float d + e8 * 10^-8 (degrees and 10^-8 degrees),
\* kept in two parts so that the known coordinates stay exact
Deg(d, e8) == [t |-> "deg", d |-> d, e8 |-> e8]

\* float(cell) of a coordinate cell
float(c) == <<c.d, c.e8>>

\* Series.mean() of a coordinate column: (sum d + sum e8 * 10^-8) / n, exact
RECURSIVE SumDeg(_)
SumDeg(cells) ==
    IF cells = <<>> THEN <<0, 0>>
    ELSE LET r == SumDeg(Tail(cells))
         IN  IF Head(cells).t = "deg"
             THEN <<Head(cells).d + r[1], Head(cells).e8 + r[2]>>
             ELSE r

MeanDeg(cells) ==
    [d |-> SumDeg(cells)[1], e8 |-> SumDeg(cells)[2],
     n |-> Cardinality({i \in DOMAIN cells : notna(cells[i])})]

(***************************************************************************)
(* DataFrame                                                               *)
(***************************************************************************)
len(df) == Len(df.rows)
HasColumn(df, name) == name \in Range(df.columns)

\* df[name]
Column(df, name) == [i \in 1..len(df) |-> df.rows[i][name]]

\* df[name] = values: an existing column is overwritten, a new one is appended
SetColumn(df, name, values) ==
    [columns |-> IF HasColumn(df, name) THEN df.columns ELSE Append(df.columns, name),
     rows |-> [i \in 1..len(df) |->
                 [c \in Range(df.columns) \cup {name} |->
                     IF c = name THEN values[i] ELSE df.rows[i][c]]]]

\* df[name] = scalar
SetScalar(df, name, v) == SetColumn(df, name, [i \in 1..len(df) |-> v])

\* a mutant of dropna: the first complete row is lost too (a slice off by one)
dropna_skip_first(df, subset) ==
    LET kept == SelectSeq(df.rows, LAMBDA r : \A c \in subset : notna(r[c]))
    IN  [df EXCEPT !.rows = SubSeq(kept, 2, Len(kept))]

\* df.dropna(subset=...)
dropna(df, subset) ==
    [df EXCEPT !.rows = SelectSeq(df.rows, LAMBDA r : \A c \in subset : notna(r[c]))]

\* Series.sum() / count() over the non-missing numeric cells
RECURSIVE SumCells(_)
SumCells(cells) ==
    IF cells = <<>> THEN 0
    ELSE (IF Head(cells).t = "num" THEN Head(cells).n ELSE 0) + SumCells(Tail(cells))

\* the first optional column name present (the for/break loops of 299-308)
FirstOf(names, columns) ==
    LET i == FirstPresent(names, columns)
    IN  IF i = 0 THEN PyNone ELSE Str(names[i])

(***************************************************************************)
(* value_counts                                                            *)
(***************************************************************************)
\* the distinct non-missing cells in first-encountered order
RECURSIVE Unique(_, _)
Unique(cells, seen) ==
    IF cells = <<>> THEN <<>>
    ELSE IF isna(Head(cells)) \/ Head(cells) \in seen THEN Unique(Tail(cells), seen)
    ELSE <<Head(cells)>> \o Unique(Tail(cells), seen \cup {Head(cells)})

CountOf(cells, k) == Cardinality({i \in DOMAIN cells : cells[i] = k})

Perms(n) == {p \in [1..n -> 1..n] : \A i, j \in 1..n : i # j => p[i] # p[j]}

\* a mutant of value_counts: the entries are not sorted at all (sort=False)
value_counts_unsorted(cells) ==
    LET keys == Unique(cells, {})
    IN  {[i \in DOMAIN keys |-> [key |-> keys[i], count |-> CountOf(cells, keys[i])]]}

\* a mutant of value_counts: only the most frequent value is kept (head(1))
value_counts_head(cells) ==
    LET keys == Unique(cells, {})
    IN  {<<[key |-> k, count |-> CountOf(cells, k)]>> :
            k \in {x \in Range(keys) :
                      \A y \in Range(keys) : CountOf(cells, x) >= CountOf(cells, y)}}

\* Series.value_counts(): one entry per distinct value, sorted by descending
\* count with a sort that is not stable (sort_values with its default
\* kind='quicksort', which numpy runs as an introsort or, where the CPU has
\* them, as a vectorized sorting network), so the order of entries with equal
\* counts is any order
value_counts(cells) ==
    LET keys == Unique(cells, {})
        n == Len(keys)
    IN  {[i \in 1..n |-> [key |-> keys[p[i]], count |-> CountOf(cells, keys[p[i]])]] :
            p \in {q \in Perms(n) :
                      \A i, j \in 1..n :
                          i < j => CountOf(cells, keys[q[i]]) >= CountOf(cells, keys[q[j]])}}

\* a mutant of sort_index: descending keys
sort_index_descending(counts) ==
    LET n == Len(counts)
        rank(i) == 1 + Cardinality({j \in 1..n : counts[j].key.n > counts[i].key.n})
    IN  [k \in 1..n |-> counts[CHOOSE i \in 1..n : rank(i) = k]]

\* Series.sort_index() of a value_counts over numeric keys: ascending keys
sort_index(counts) ==
    LET n == Len(counts)
        rank(i) == 1 + Cardinality({j \in 1..n : counts[j].key.n < counts[i].key.n})
    IN  [k \in 1..n |-> counts[CHOOSE i \in 1..n : rank(i) = k]]

\* a mutant of the sort inside median: the cells stay in row order
SortedNums_row_order(cells) == [k \in 1..Len(cells) |-> cells[k].n]

\* Series.median() of numeric cells, as the fraction num/den
SortedNums(cells) ==
    LET n == Len(cells)
        rank(i) == 1 + Cardinality({j \in 1..n : cells[j].n < cells[i].n
                                        \/ (cells[j].n = cells[i].n /\ j < i)})
    IN  [k \in 1..n |-> cells[CHOOSE i \in 1..n : rank(i) = k].n]

median(cells) ==
    LET s == SortedNums(cells)
        n == Len(s)
    IN  IF n % 2 = 1 THEN Frac(s[(n + 1) \div 2], 1)
        ELSE Frac(s[n \div 2] + s[n \div 2 + 1], 2)

(***************************************************************************)
(* parse_city_from_handelsnavn (generate_dashboard.py 27-37)               *)
(***************************************************************************)
T_Ukendt == <<"U", "k", "e", "n", "d", "t">>

\* parts[1] in the place of parts[-1]: the text is cut at its first ","
LastComma_first(text) ==
    LET at == {i \in DOMAIN text : text[i] = ","}
    IN  IF at = {} THEN 0 ELSE CHOOSE i \in at : \A j \in at : i <= j

\* the text after the last "," (parts[-1]) and the number of parts
LastComma(text) ==
    LET at == {i \in DOMAIN text : text[i] = ","}
    IN  IF at = {} THEN 0 ELSE CHOOSE i \in at : \A j \in at : j <= i

\* str.split(): the maximal runs of non-blank characters
RECURSIVE SplitWords(_, _)
SplitWords(text, word) ==
    IF text = <<>> THEN (IF word = <<>> THEN <<>> ELSE <<word>>)
    ELSE IF Head(text) = " "
         THEN (IF word = <<>> THEN <<>> ELSE <<word>>) \o SplitWords(Tail(text), <<>>)
         ELSE SplitWords(Tail(text), Append(word, Head(text)))

\* ' '.join(words)
RECURSIVE JoinWords(_)
JoinWords(words) ==
    IF words = <<>> THEN <<>>
    ELSE IF Len(words) = 1 THEN words[1]
    ELSE words[1] \o <<" ">> \o JoinWords(Tail(words))

\* len(words) > 0 in the place of len(words) > 1
parse_city_one_word(handelsnavn) ==
    IF isna(handelsnavn) THEN T_Ukendt
    ELSE LET text == handelsnavn.s
             k == LastComma(text)
             words == SplitWords(SubSeq(text, k + 1, Len(text)), <<>>)
         IN  IF k > 0 /\ Len(words) > 0 THEN JoinWords(Tail(words)) ELSE T_Ukendt

parse_city_from_handelsnavn(handelsnavn) ==
    IF isna(handelsnavn) THEN T_Ukendt
    ELSE LET text == handelsnavn.s
             k == LastComma(text)
             words == SplitWords(SubSeq(text, k + 1, Len(text)), <<>>)
         IN  IF k > 0 /\ Len(words) > 1 THEN JoinWords(Tail(words)) ELSE T_Ukendt

(***************************************************************************)
(* geocode_address (generate_dashboard.py 39-60)                           *)
(***************************************************************************)
known_addresses ==
    << [addr |-> <<"G", "r", "i", "f", "f", "e", "n", "f", "e", "l", "d", "s", "g", "a", "d", "e", " ", "4", "B">>,
        coords |-> <<Deg(55, 68953163), Deg(12, 55545457)>>],
       [addr |-> <<"R", "å", "d", "m", "a", "n", "d", "s", "g", "a", "d", "e", " ", "3", "4">>,
        coords |-> <<Deg(55, 69978992), Deg(12, 55090717)>>],
       [addr |-> <<"R", "å", "d", "m", "a", "n", "d", "s", "g", "a", "d", "e", " ", "3", "6">>,
        coords |-> <<Deg(55, 69987455), Deg(12, 55113735)>>],
       [addr |-> <<"V", "e", "n", "ø", "g", "a", "d", "e", " ", "2", "4">>,
        coords |-> <<Deg(55, 71248034), Deg(12, 56448710)>>],
       [addr |-> <<"S", "ø", "l", "l", "e", "r", "ø", "d", "g", "a", "d", "e", " ", "1", "7">>,
        coords |-> <<Deg(55, 69416374), Deg(12, 54659476)>>],
       [addr |-> <<"S", "ø", "l", "l", "e", "r", "ø", "d", "g", "a", "d", "e", " ", "1", "5">>,
        coords |-> <<Deg(55, 69406004), Deg(12, 54676630)>>],
       [addr |-> <<"H", "o", "l", "g", "e", "r", " ", "D", "a", "n", "s", "k", "e", "s", " ", "V", "e", "j", " ", "3", "2">>,
        coords |-> <<Deg(55, 68712091), Deg(12, 53648974)>>],
       [addr |-> <<"B", "l", "e", "g", "d", "a", "m", "s", "v", "e", "j", " ", "3", "0", "A">>,
        coords |-> <<Deg(55, 69266957), Deg(12, 56496568)>>],
       [addr |-> <<"B", "j", "e", "l", "k", "e", "s", " ", "A", "l", "l", "é", " ", "2", "0">>,
        coords |-> <<Deg(55, 69307928), Deg(12, 54489447)>>],
       [addr |-> <<"B", "j", "e", "l", "k", "e", "s", " ", "A", "l", "l", "é", " ", "1", "6">>,
        coords |-> <<Deg(55, 69284985), Deg(12, 54508262)>>],
       [addr |-> <<"A", "l", "h", "a", "m", "b", "r", "a", "v", "e", "j", " ", "1", "5">>,
        coords |-> <<Deg(55, 67535625), Deg(12, 54444716)>>],
       [addr |-> <<"A", "l", "h", "a", "m", "b", "r", "a", "v", "e", "j", " ", "1", "3">>,
        coords |-> <<Deg(55, 67517812), Deg(12, 54429515)>>] >>

\* the fallback of line 60
fallback_coords == <<Deg(55, 67610000), Deg(12, 56830000)>>

UpperChars == <<"A", "B", "C", "D", "E", "F", "G", "H", "I", "J", "K", "L", "M", "N", "O", "P", "Q", "R", "S", "T", "U", "V", "W", "X", "Y", "Z", "Å", "Ø", "Æ", "É">>
LowerChars == <<"a", "b", "c", "d", "e", "f", "g", "h", "i", "j", "k", "l", "m", "n", "o", "p", "q", "r", "s", "t", "u", "v", "w", "x", "y", "z", "å", "ø", "æ", "é">>

\* str.lower()
lower(text) ==
    [i \in DOMAIN text |->
        IF \E k \in DOMAIN UpperChars : UpperChars[k] = text[i]
        THEN LowerChars[CHOOSE k \in DOMAIN UpperChars : UpperChars[k] = text[i]]
        ELSE text[i]]

\* `a in b` on str
IsSubstring(a, b) ==
    \E i \in 0..(Len(b) - Len(a)) : SubSeq(b, i + 1, i + Len(a)) = a

\* the loop of 56-58 without its return: the last hit wins
FirstKnown_last(hits) ==
    IF hits = {} THEN fallback_coords
    ELSE known_addresses[CHOOSE k \in hits : \A j \in hits : j <= k].coords

\* the coordinates of the first known address among hits, else the fallback
\* (the for loop of 56-60)
FirstKnown(hits) ==
    IF hits = {} THEN fallback_coords
    ELSE known_addresses[CHOOSE k \in hits : \A j \in hits : k <= j].coords

\* geocode_address of a text; a missing cell is a float and has no .lower()
geocode_address(address) ==
    IF address.t # "str"
    THEN [kind |-> "raise", exc |-> [type |-> "AttributeError"]]
    ELSE [kind |-> "return",
          value |-> FirstKnown({k \in DOMAIN known_addresses :
                                   IsSubstring(lower(known_addresses[k].addr),
                                               lower(address.s))})]

(***************************************************************************)
(* The chart renderers (generate_dashboard.py 62-277)                      *)
(***************************************************************************)
ArealCol(mode) == IF mode = "leje" THEN "Areal" ELSE "Enhedsareal"

\* pd.cut(areal, bins=[0, 50, 75, 100, 115, 130, 200], include_lowest=True)
ArealKategori(c) ==
    IF c.t # "num" \/ c.n < 0 \/ c.n > 200 THEN 0
    ELSE IF c.n <= 50 THEN 1 ELSE IF c.n <= 75 THEN 2 ELSE IF c.n <= 100 THEN 3
    ELSE IF c.n <= 115 THEN 4 ELSE IF c.n <= 130 THEN 5 ELSE 6

AllMissing(cells) == \A i \in DOMAIN cells : isna(cells[i])

\* the columns whose mean is passed to int() by create_summary_table
IntMeanCols(mode) ==
    IF mode = "leje" THEN {"Leje/m2", "Årsleje", "Liggedage"}
    ELSE {"Pris pr. m2 (enhedsareal)", "Pris"}

\* np.polyfit on no points raises TypeError (93); int() of a NaN mean raises
\* ValueError, for an observed area category (228-232) or for the total row
\* (236-243)
RenderMustRaise(df, mode) ==
    \/ len(df) = 0
    \/ AllMissing(Column(df, ArealCol(mode)))
    \/ \E c \in IntMeanCols(mode) : AllMissing(Column(df, c))
    \/ \E k \in 1..6 :
          LET grp == SelectSeq(df.rows, LAMBDA r : ArealKategori(r[ArealCol(mode)]) = k)
          IN  /\ grp # <<>>
              /\ \E c \in IntMeanCols(mode) : \A i \in DOMAIN grp : isna(grp[i][c])

\* What the three renderers do with df.  Where nothing forces a failure the
\* outcome still depends on the installed libraries: np.polyfit on points
\* with NaN raises LinAlgError on most LAPACK builds (93), and groupby over
\* the categorical area bins yields the unobserved bins too unless
\* observed=True is the default, whose NaN mean then fails in int() (228).
\* A table of at most five rows leaves a bin unobserved.
Render(df, mode) ==
    IF len(df) = 0 THEN {[kind |-> "raise", exc |-> [type |-> "TypeError"]]}
    ELSE IF RenderMustRaise(df, mode)
    THEN {[kind |-> "raise", exc |-> [type |-> "ValueError"]]}
    ELSE {[kind |-> "return", value |-> "data:image/png;base64"],
          [kind |-> "raise", exc |-> [type |-> "ValueError"]]}

(***************************************************************************)
(* process_leje_data (generate_dashboard.py 279-402)                       *)
(***************************************************************************)
\* the synonym lists of the required columns, in the order resolved (287-295)
LejeRequired ==
    << <<"Adresse", "Address">>,
       <<"By", "City", "Postnr.">>,
       <<"Lat", "Latitude">>,
       <<"Lng", "Lon", "Longitude">>,
       <<"Areal", "Area">>,
       <<"Leje/m2", "Leje pr. m2">>,
       <<"Årsleje", "Arsleje", "Yearly rent">>,
       <<"Liggedage", "Days on market">>,
       <<"Antal værelser", "Antal Værelser", "Værelser", "Rooms">> >>

\* the standardized names they are copied to (311-319)
LejeStandard ==
    <<"Adresse", "By", "Lat", "Lng", "Areal", "Leje/m2", "Årsleje", "Liggedage",
      "Antal værelser">>

LejeYearNames == <<"Opførelsesår", "Opfoerelsesaar", "Byggeår", "Year built">>
LejeTypeNames == <<"Boligtype", "Type", "Property type">>

\* a mutant: the cleaning step does not look at the address
LejeSubsetNoAdresse ==
    {"By", "Lat", "Lng", "Areal", "Leje/m2", "Årsleje", "Liggedage", "Antal værelser"}

\* dropna(subset=[...]) of line 350
LejeSubset ==
    {"Adresse", "By", "Lat", "Lng", "Areal", "Leje/m2", "Årsleje", "Liggedage",
     "Antal værelser"}

\* the outcomes of step on each outcome of before: one statement after another
Then(before, step(_)) == UNION {step(x) : x \in before}

\* df[dst] = df[src]
Assign(df, dst, src) == SetColumn(df, dst, Column(df, src))

\* df[dst[i]] = df[src[i]] for i = k..Len(dst), one assignment after another
RECURSIVE Standardize(_, _, _, _)
Standardize(df, dst, src, k) ==
    IF k > Len(dst) THEN {df}
    ELSE Then({Assign(df, dst[k], src[k])}, LAMBDA d : Standardize(d, dst, src, k + 1))

\* a mutant: the monthly rent is rounded up
leje_maned_ceil(row) == -((-row["Årsleje"].n) \div 12)

\* int(row['Årsleje'] / 12) (365)
leje_maned(row) == TruncDiv(row["Årsleje"].n, 12)

\* the dictionary built from one row (358-370)
LejeBolig(row) ==
    [adresse |-> str(row["Adresse"]),
     by |-> str(row["By"]),
     lat |-> float(row["Lat"]),
     lng |-> float(row["Lng"]),
     areal |-> int(row["Areal"]),
     leje_m2 |-> int(row["Leje/m2"]),
     leje_maned |-> leje_maned(row),
     liggedage |-> int(row["Liggedage"]),
     varelser |-> int(row["Antal værelser"]),
     opfoerelsesaar |-> IF notna(row["Opførelsesår"])
                        THEN Num(int(row["Opførelsesår"])) ELSE PyNone,
     boligtype |-> IF notna(row["Boligtype"]) THEN str(row["Boligtype"])
                   ELSE T_IkkeAngivet]

\* a mutant: the mean of the monthly rents the listings carry
gns_leje_of_listings(df) ==
    TruncDiv(SumCells([i \in 1..len(df) |-> Num(leje_maned(df.rows[i]))]), len(df))

\* int((df['Årsleje'] / 12).mean()) (377)
gns_leje(df) == TruncDiv(SumCells(Column(df, "Årsleje")), 12 * len(df))

\* a mutant: a missing year column gives the year 0
LejeYear_zero(df, year_col) ==
    IF year_col # PyNone THEN Assign(df, "Opførelsesår", year_col.s)
    ELSE SetScalar(df, "Opførelsesår", Num(0))

\* the statistics of 374-386, for one outcome by_counts of value_counts
LejeStats(df, boliger, by_counts) ==
    LET n == len(df)
        yearly == Column(df, "Årsleje")
        med == median(yearly)
    IN  [total_boliger |-> Len(boliger),
         gns_leje_m2 |-> TruncDiv(SumCells(Column(df, "Leje/m2")), n),
         gns_areal |-> TruncDiv(SumCells(Column(df, "Areal")), n),
         gns_leje |-> gns_leje(df),
         median_leje |-> TruncDiv(med.num, 12 * med.den),
         center_lat |-> MeanDeg(Column(df, "Lat")),
         center_lng |-> MeanDeg(Column(df, "Lng")),
         vaerelser_data |->
            LET vc == sort_index(CHOOSE v \in value_counts(Column(df, "Antal værelser")) : TRUE)
            IN  [i \in DOMAIN vc |-> [varelser |-> int(vc[i].key), antal |-> vc[i].count]],
         by_data |->
            [i \in DOMAIN by_counts |-> [by |-> str(by_counts[i].key),
                                         antal |-> by_counts[i].count]],
         boliger |-> boliger]

\* df['Opførelsesår'] (322-327); year_col is the column found at 298-302
LejeYear(df, year_col) ==
    IF year_col # PyNone THEN Assign(df, "Opførelsesår", year_col.s)
    ELSE SetScalar(df, "Opførelsesår", NaN)

\* df['Boligtype'] (329-334); type_col is the column found at 304-308
LejeType(df, type_col) ==
    IF type_col # PyNone THEN Assign(df, "Boligtype", type_col.s)
    ELSE SetScalar(df, "Boligtype", Str(T_IkkeAngivet))

\* df['Leje/måned'] = df['Årsleje'] / 12 unless the sheet has the column (337-338)
LejeMonthly(df) ==
    IF HasColumn(df, "Leje/måned") THEN df
    ELSE SetColumn(df, "Leje/måned",
            [i \in 1..len(df) |->
                IF df.rows[i]["Årsleje"].t = "num"
                THEN Frac(df.rows[i]["Årsleje"].n, 12) ELSE NaN])

\* lines 297-338: the optional columns, the standardized columns and the
\* monthly rent, on the sheet whose required columns were found
LejePrepare(sheet, found) ==
    Then(Then(Then(
        Standardize(sheet, LejeStandard, [i \in DOMAIN found |-> found[i].value], 1),
        LAMBDA d : {LejeYear(d, FirstOf(LejeYearNames, sheet.columns))}),
        LAMBDA d : {LejeType(d, FirstOf(LejeTypeNames, sheet.columns))}),
        LAMBDA d : {LejeMonthly(d)})

\* lines 355-402 on the cleaned table df, for one outcome by_counts of
\* value_counts
LejeResult(df4, df, boliger, by_counts) ==
    [kind |-> "return",
     value |-> LejeStats(df, boliger, by_counts),
     rendered |-> df4,
     df |-> df,
     dropped |-> len(df4) - len(df)]

\* lines 340-402: img is what the renderers did with the table before the
\* cleaning step (340-346), df the table after it (349-350)
LejeFinish(df4, df, img) ==
    IF img.kind = "raise" THEN {img}
    ELSE IF len(df) = 0
    THEN {[kind |-> "raise", exc |-> [type |-> "ValueError"]]}
    ELSE {LejeResult(df4, df, boliger, by_counts) :
             boliger \in {[i \in 1..len(df) |-> LejeBolig(df.rows[i])]},
             by_counts \in value_counts(Column(df, "By"))}

\* lines 340-402 on the table df4 that lines 297-338 left
LejeRenderAndClean(df4) ==
    UNION {LejeFinish(df4, df, img) :
              df \in {dropna(df4, LejeSubset)},
              img \in Render(df4, "leje")}

\* the first KeyError of the find_column calls, if one raised
FirstRaise(found) ==
    {[kind |-> "raise", exc |-> found[i].exc] :
        i \in {k \in DOMAIN found :
                  /\ found[k].kind = "raise"
                  /\ \A j \in 1..(k - 1) : found[j].kind # "raise"}}

\* lines 286-402 for the results found of the find_column calls
LejeAfterFind(sheet, found) ==
    IF FirstRaise(found) # {} THEN FirstRaise(found)
    ELSE Then(LejePrepare(sheet, found), LAMBDA df4 : LejeRenderAndClean(df4))

\* the outcomes of process_leje_data on the sheet read by pd.read_excel
process_leje_data(sheet) ==
    Then({[i \in DOMAIN LejeRequired |-> find_column(sheet.columns, LejeRequired[i])]},
         LAMBDA found : LejeAfterFind(sheet, found))

(***************************************************************************)
(* process_ejer_data (generate_dashboard.py 418-644)                       *)
(***************************************************************************)
Raise(type) == [kind |-> "raise", exc |-> [type |-> type]]
Ok(df) == [kind |-> "ok", df |-> df]

\* df[cols]
Project(df, cols) ==
    [columns |-> cols,
     rows |-> [i \in 1..len(df) |-> [c \in Range(cols) |-> df.rows[i][c]]]]

RECURSIVE Flatten(_)
Flatten(seqs) == IF seqs = <<>> THEN <<>> ELSE Head(seqs) \o Flatten(Tail(seqs))

\* left.merge(right, on=key, how='left'): every left row once per right row
\* with an equal key (NaN keys match each other), or once with missing right
\* cells; a column name on both sides gets the suffixes _x and _y
merge_left(left, right, key) ==
    LET overlap == (Range(left.columns) \cap Range(right.columns)) \ {key}
        lname(c) == IF c \in overlap THEN c \o "_x" ELSE c
        rname(c) == IF c \in overlap THEN c \o "_y" ELSE c
        rcols == SelectSeq(right.columns, LAMBDA c : c # key)
        columns == [i \in DOMAIN left.columns |-> lname(left.columns[i])]
                   \o [i \in DOMAIN rcols |-> rname(rcols[i])]
        fromleft(c2) == \E c \in Range(left.columns) : lname(c) = c2
        row(l, r) ==
            [c2 \in Range(columns) |->
                IF fromleft(c2)
                THEN l[CHOOSE c \in Range(left.columns) : lname(c) = c2]
                ELSE IF r = PyNone THEN NaN
                ELSE r[CHOOSE c \in Range(rcols) : rname(c) = c2]]
        joined(l) ==
            LET m == SelectSeq(right.rows, LAMBDA r : r[key] = l[key])
            IN  IF m = <<>> THEN <<row(l, PyNone)>>
                ELSE [j \in DOMAIN m |-> row(l, m[j])]
    IN  [columns |-> columns,
         rows |-> Flatten([i \in 1..len(left) |-> joined(left.rows[i])])]

EnhederRoomNames == <<"Antal værelser", "Antal Værelser", "Værelser">>
EnhederLatNames == <<"Latitude", "Lat", "latitude">>
EnhederLngNames == <<"Longitude", "Lng", "Lon", "longitude">>

\* the outcomes of step on the table of each outcome of before that did not
\* raise
OnOk(before, step(_)) ==
    UNION {IF r.kind = "raise" THEN {r} ELSE step(r.df) : r \in before}

\* df[dst] = df[src], a KeyError when src is not a column
CopyColumn(df, dst, src) ==
    IF HasColumn(df, src) THEN Ok(Assign(df, dst, src)) ELSE Raise("KeyError")

\* df[dst] = df[col] when the name col was found
CopyFound(df, dst, col) == IF col # PyNone THEN CopyColumn(df, dst, col.s) ELSE Ok(df)

\* df_enheder[merge_cols] (454-460)
merge_cols(rooms_col_enheder, lat_col_enheder, lng_col_enheder) ==
    <<"Handels-ID">>
    \o (IF rooms_col_enheder # PyNone THEN <<rooms_col_enheder.s>> ELSE <<>>)
    \o (IF lat_col_enheder # PyNone THEN <<lat_col_enheder.s>> ELSE <<>>)
    \o (IF lng_col_enheder # PyNone THEN <<lng_col_enheder.s>> ELSE <<>>)

\* the merge and the three copies of 462-473
MergeFound(df, df_enheder, rooms_col_enheder, lat_col_enheder, lng_col_enheder) ==
    OnOk(OnOk(OnOk(
        {Ok(merge_left(df,
                       Project(df_enheder,
                               merge_cols(rooms_col_enheder, lat_col_enheder, lng_col_enheder)),
                       "Handels-ID"))},
        LAMBDA d : {IF rooms_col_enheder # Str("Antal Værelser")
                    THEN CopyFound(d, "Antal Værelser", rooms_col_enheder) ELSE Ok(d)}),
        LAMBDA d : {CopyFound(d, "lat", lat_col_enheder)}),
        LAMBDA d : {CopyFound(d, "lng", lng_col_enheder)})

\* the merge of the 'Enheder' sheet (429-478) into the first sheet df
MergeEnheder(book, df) ==
    IF "Enheder" \notin Range(book.sheet_names) THEN {Ok(df)}
    ELSE IF ~(HasColumn(book.sheets["Enheder"], "Handels-ID") /\ HasColumn(df, "Handels-ID"))
    THEN {Ok(df)}
    ELSE MergeFound(df, book.sheets["Enheder"],
                    FirstOf(EnhederRoomNames, book.sheets["Enheder"].columns),
                    FirstOf(EnhederLatNames, book.sheets["Enheder"].columns),
                    FirstOf(EnhederLngNames, book.sheets["Enheder"].columns))

\* the synonym lists of the required columns, in the order resolved (483-487)
EjerRequired ==
    << <<"Pris", "Price", "Salgspris">>,
       <<"Enhedsareal", "Areal", "Area">>,
       <<"Pris pr. m2 (enhedsareal)", "Pris pr. m2", "Pris/m2">>,
       <<"Handelsnavn", "Adresse", "Address">>,
       <<"Handelsdato", "Dato", "Date">> >>

\* the standardized names they are copied to (576-580)
EjerStandard ==
    <<"Pris", "Enhedsareal", "Pris pr. m2 (enhedsareal)", "Handelsnavn", "Handelsdato">>

EjerRoomNames == <<"Antal værelser", "Værelser", "Rooms", "Antal rum">>
EjerAnvendelseNames == <<"Anvendelse", "Ejendomstype", "Type", "Enhedens anvendelse">>
EjendommeYearNames == <<"Opførelsesår", "Opfoerelsesaar", "Byggeår">>

\* the room count: a column of the merge or of the sheet, else the estimate
\* from the area (490-515)
ResolveRooms(df, area_col) ==
    IF HasColumn(df, "Antal Værelser") THEN df
    ELSE IF FirstOf(EjerRoomNames, df.columns) # PyNone
    THEN Assign(df, "Antal Værelser", FirstOf(EjerRoomNames, df.columns).s)
    ELSE SetColumn(df, "Antal Værelser",
            [i \in 1..len(df) |-> Num(estimate_rooms(df.rows[i][area_col]))])

\* Series.fillna(other): the missing cells take other's cell of the same row
fillna(cells, other) == [i \in DOMAIN cells |-> IF isna(cells[i]) THEN other[i] ELSE cells[i]]

\* df[name] = values if the column is not there, then
\* df[name] = df[name].fillna(values) (521-527)
FillColumn(df, name, values) ==
    IF HasColumn(df, name) THEN SetColumn(df, name, fillna(Column(df, name), values))
    ELSE SetColumn(df, name, values)

\* lines 521-527 for the geocoded coords of the rows
FillCoords(df, coords) ==
    IF \E i \in DOMAIN coords : coords[i].kind = "raise"
    THEN {Raise("AttributeError")}
    ELSE Then({FillColumn(df, "lat", [i \in DOMAIN coords |-> coords[i].value[1]])},
              LAMBDA d : {Ok(FillColumn(d, "lng", [i \in DOMAIN coords |-> coords[i].value[2]]))})

\* the coordinates (518-529)
ResolveCoords(df, name_col) ==
    IF HasColumn(df, "lat") /\ HasColumn(df, "lng")
          /\ ~\E i \in 1..len(df) : isna(df.rows[i]["lat"])
    THEN {Ok(df)}
    ELSE Then({[i \in 1..len(df) |-> geocode_address(df.rows[i][name_col])]},
              LAMBDA coords : FillCoords(df, coords))

\* an Excel date cell
Date(y, m, d) == [t |-> "date", y |-> y, m |-> m, d |-> d]

DigitChars == <<"0", "1", "2", "3", "4", "5", "6", "7", "8", "9">>
Digit(n) == DigitChars[n + 1]

\* Timestamp.strftime('%Y-%m-%d')
strftime(c) ==
    Str(<<Digit(c.y \div 1000), Digit((c.y \div 100) % 10), Digit((c.y \div 10) % 10),
          Digit(c.y % 10), "-", Digit(c.m \div 10), Digit(c.m % 10), "-",
          Digit(c.d \div 10), Digit(c.d % 10)>>)

\* pd.to_datetime(column).dt.strftime('%Y-%m-%d') (532): a date cell is
\* formatted, a missing cell is NaT and stays missing, a text that is no
\* date raises
Handelsdato_str(cells) ==
    IF \E i \in DOMAIN cells : cells[i].t = "str" THEN Raise("ValueError")
    ELSE [kind |-> "ok",
          cells |-> [i \in DOMAIN cells |->
                        IF cells[i].t = "date" THEN strftime(cells[i]) ELSE NaN]]

\* df['By'] (531)
EjerCity(df, name_col) ==
    SetColumn(df, "By",
        [i \in 1..len(df) |-> Str(parse_city_from_handelsnavn(df.rows[i][name_col]))])

\* df['Handelsdato_str'] (532) for the outcome dates of the conversion
EjerDates(df, dates) ==
    IF dates.kind = "raise" THEN dates
    ELSE Ok(SetColumn(df, "Handelsdato_str", dates.cells))

\* 'Anvendelse' (535-547)
ResolveAnvendelse(df) ==
    IF HasColumn(df, "Anvendelse") THEN df
    ELSE IF FirstOf(EjerAnvendelseNames, df.columns) # PyNone
    THEN Assign(df, "Anvendelse", FirstOf(EjerAnvendelseNames, df.columns).s)
    ELSE SetScalar(df, "Anvendelse", Str(T_IkkeAngivet))

\* the merge of 561-566 with the year column found in the 'Ejendomme' sheet
MergeYear(df, df_ejendomme, year_col_ejend) ==
    IF ~HasColumn(df, "Handels-ID") THEN {Raise("KeyError")}
    ELSE Then({merge_left(df, Project(df_ejendomme, <<"Handels-ID", year_col_ejend.s>>),
                          "Handels-ID")},
              LAMBDA d : {CopyColumn(d, "Opførelsesår", year_col_ejend.s)})

\* the merge of the 'Ejendomme' sheet (550-573)
MergeEjendomme(book, df) ==
    IF "Ejendomme" \notin Range(book.sheet_names)
    THEN {Ok(SetScalar(df, "Opførelsesår", NaN))}
    ELSE IF /\ FirstOf(EjendommeYearNames, book.sheets["Ejendomme"].columns) # PyNone
            /\ HasColumn(book.sheets["Ejendomme"], "Handels-ID")
    THEN MergeYear(df, book.sheets["Ejendomme"],
                   FirstOf(EjendommeYearNames, book.sheets["Ejendomme"].columns))
    ELSE {Ok(SetScalar(df, "Opførelsesår", NaN))}

\* dropna(subset=[...]) of line 592
EjerSubset ==
    {"Handelsnavn", "By", "lat", "lng", "Enhedsareal", "Pris", "Pris pr. m2 (enhedsareal)",
     "Antal Værelser"}

\* the dictionary built from one row (600-612)
EjerBolig(row) ==
    [handelsnavn |-> str(row["Handelsnavn"]),
     by |-> str(row["By"]),
     lat |-> float(row["lat"]),
     lng |-> float(row["lng"]),
     areal |-> int(row["Enhedsareal"]),
     pris |-> int(row["Pris"]),
     pris_m2 |-> int(row["Pris pr. m2 (enhedsareal)"]),
     varelser |-> int(row["Antal Værelser"]),
     handelsdato |-> str(row["Handelsdato_str"]),
     anvendelse |-> IF notna(row["Anvendelse"]) THEN str(row["Anvendelse"])
                    ELSE T_IkkeAngivet,
     opfoerelsesaar |-> IF notna(row["Opførelsesår"])
                        THEN Num(int(row["Opførelsesår"])) ELSE PyNone]

\* the statistics of 616-628, for one outcome by_counts of value_counts
EjerStats(df, boliger, by_counts) ==
    LET n == len(df)
        med == median(Column(df, "Pris"))
    IN  [total_boliger |-> Len(boliger),
         gns_pris_m2 |-> TruncDiv(SumCells(Column(df, "Pris pr. m2 (enhedsareal)")), n),
         gns_areal |-> TruncDiv(SumCells(Column(df, "Enhedsareal")), n),
         gns_pris |-> TruncDiv(SumCells(Column(df, "Pris")), n),
         median_pris |-> TruncDiv(med.num, med.den),
         center_lat |-> MeanDeg(Column(df, "lat")),
         center_lng |-> MeanDeg(Column(df, "lng")),
         vaerelser_data |->
            LET vc == sort_index(CHOOSE v \in value_counts(Column(df, "Antal Værelser")) : TRUE)
            IN  [i \in DOMAIN vc |-> [varelser |-> int(vc[i].key), antal |-> vc[i].count]],
         by_data |->
            [i \in DOMAIN by_counts |-> [by |-> str(by_counts[i].key),
                                         antal |-> by_counts[i].count]],
         boliger |-> boliger]

\* lines 489-580 on the merged table whose required columns were found:
\* found[1..5] are price_col, area_col, price_m2_col, name_col, date_col
EjerPrepare(book, df0, found) ==
    OnOk(OnOk(OnOk(OnOk(OnOk(OnOk(
        {Ok(ResolveRooms(df0, found[2].value))},
        LAMBDA d : ResolveCoords(d, found[4].value)),
        LAMBDA d : {Ok(EjerCity(d, found[4].value))}),
        LAMBDA d : {EjerDates(d, Handelsdato_str(Column(d, found[5].value)))}),
        LAMBDA d : {Ok(ResolveAnvendelse(d))}),
        LAMBDA d : MergeEjendomme(book, d)),
        LAMBDA d : {Ok(x) : x \in Standardize(d, EjerStandard,
                                              [i \in DOMAIN found |-> found[i].value], 1)})

\* lines 597-644 on the cleaned table df, for one outcome by_counts of
\* value_counts
EjerResult(df5, df, boliger, by_counts) ==
    [kind |-> "return",
     value |-> EjerStats(df, boliger, by_counts),
     rendered |-> df5,
     df |-> df,
     dropped |-> len(df5) - len(df)]

\* lines 582-644: img is what the renderers did with the table before the
\* cleaning step (582-588), df the table after it (591-592)
EjerFinish(df5, df, img) ==
    IF img.kind = "raise" THEN {img}
    ELSE IF len(df) = 0 THEN {Raise("ValueError")}
    ELSE {EjerResult(df5, df, boliger, by_counts) :
             boliger \in {[i \in 1..len(df) |-> EjerBolig(df.rows[i])]},
             by_counts \in value_counts(Column(df, "By"))}

\* lines 582-644 on the table df5 that lines 489-580 left
EjerRenderAndClean(df5) ==
    UNION {EjerFinish(df5, df, img) :
              df \in {dropna(df5, EjerSubset)},
              img \in Render(df5, "ejer")}

\* lines 480-644 for the results found of the find_column calls
EjerAfterFind(book, df0, found) ==
    IF FirstRaise(found) # {} THEN FirstRaise(found)
    ELSE OnOk(EjerPrepare(book, df0, found), LAMBDA df5 : EjerRenderAndClean(df5))

\* lines 480-644 on the table the 'Enheder' step left
EjerAfterMerge(book, df0) ==
    Then({[i \in DOMAIN EjerRequired |-> find_column(df0.columns, EjerRequired[i])]},
         LAMBDA found : EjerAfterFind(book, df0, found))

\* the outcomes of process_ejer_data on the workbook
process_ejer_data(book) ==
    OnOk(MergeEnheder(book, book.sheets[book.sheet_names[1]]),
         LAMBDA df0 : EjerAfterMerge(book, df0))

(***************************************************************************)
(* Bounds and inputs                                                       *)
(***************************************************************************)
MaxCols == 3        \* columns of the table given to find_column
MaxCand == 3        \* candidates given to find_column
MaxArea == 130      \* largest area given to estimate_rooms
MaxRows == 3        \* rows of a sheet given to a pipeline

\* column names the resolver is exercised with (292, 291, 483)
ResolverNames == {"Leje/m2", "Leje pr. m2", "Areal", "Pris"}

Areas == {Num(a) : a \in 0..MaxArea} \cup {NaN}

NotLoaded == [kind |-> "not loaded"]

\* the sheet with the columns header[i] # "" and one row per tuple of cells
MakeSheet(header, cells) ==
    LET columns == SelectSeq(header, LAMBDA h : h # "")
    IN  [columns |-> columns,
         rows |-> [k \in DOMAIN cells |->
                     [c \in Range(columns) |->
                         cells[k][CHOOSE i \in DOMAIN header : header[i] = c]]]]

T_Vej1 == <<"V", "e", "j", " ", "1">>
T_Kbh == <<"K", "b", "h">>
T_Aarhus == <<"A", "a", "r", "h", "u", "s">>
T_Lejlighed == <<"L", "e", "j", "l", "i", "g", "h", "e", "d">>
T_Alhambravej15 == <<"A", "l", "h", "a", "m", "b", "r", "a", "v", "e", "j", " ", "1", "5", ",", " ", "1", "8", "2", "6", " ", "F", "r", "b", " ", "C">>
T_Blegdamsvej == <<"b", "l", "e", "g", "d", "a", "m", "s", "v", "e", "j", " ", "3", "0", "a", ",", " ", "2", "2", "0", "0", " ", "K", "b", "h", " ", "N">>
T_BadDate == <<"s", "n", "a", "r", "t">>

\* rental sheets: the column names of 287-308 in three layouts, the last one
\* without a days-on-market column
LejeHeaderDa ==
    <<"Adresse", "By", "Lat", "Lng", "Areal", "Leje/m2", "Årsleje", "Liggedage",
      "Antal værelser", "Opførelsesår", "Boligtype">>
LejeHeaderEn ==
    <<"Address", "Postnr.", "Latitude", "Lon", "Area", "Leje pr. m2", "Yearly rent",
      "Days on market", "Rooms", "", "">>
LejeHeaderNoDays ==
    <<"Adresse", "By", "Lat", "Lng", "Areal", "Leje/m2", "Årsleje", "",
      "Antal værelser", "", "">>

LejeBase ==
    <<Str(T_Vej1), Str(T_Kbh), Deg(55, 67610000), Deg(12, 56830000), Num(80), Num(1500),
      Num(120000), Num(30), Num(3), Num(1950), Str(T_Lejlighed)>>

YearlyRents == {120000, 100000, -100000}

\* rows for the cleaning step: a complete row per yearly rent, and the base
\* row with its k-th cell missing
LejeCleanRows(k) ==
    {[LejeBase EXCEPT ![7] = Num(y)] : y \in YearlyRents}
    \cup {[LejeBase EXCEPT ![k] = NaN]}

\* rows for the statistics: two cities, two room counts, two rents, and a row
\* the cleaning step drops
LejeStatsRows ==
    {[LejeBase EXCEPT ![2] = Str(T_Kbh), ![9] = Num(2), ![7] = Num(120000)],
     [LejeBase EXCEPT ![2] = Str(T_Aarhus), ![9] = Num(3), ![7] = Num(100000)],
     [LejeBase EXCEPT ![2] = Str(T_Kbh), ![9] = Num(3), ![7] = Num(100000)],
     [LejeBase EXCEPT ![2] = Str(T_Aarhus), ![9] = Num(2), ![7] = Num(120000)],
     [LejeBase EXCEPT ![5] = NaN]}

\* ownership workbooks: the first sheet in three layouts (483-487, 490-547),
\* the last one without a price column
EjerHeaderFull ==
    <<"Handels-ID", "Pris", "Enhedsareal", "Pris pr. m2 (enhedsareal)", "Handelsnavn",
      "Handelsdato", "Antal Værelser", "lat", "lng", "Anvendelse">>
EjerHeaderMin ==
    <<"Handels-ID", "Salgspris", "Areal", "Pris/m2", "Adresse", "Dato", "", "", "", "">>
EjerHeaderNoPrice ==
    <<"Handels-ID", "", "Enhedsareal", "Pris pr. m2 (enhedsareal)", "Handelsnavn",
      "Handelsdato", "Antal Værelser", "lat", "lng", "Anvendelse">>

EjerBase ==
    <<Num(1), Num(3000000), Num(80), Num(37500), Str(T_Alhambravej15), Date(2024, 3, 5),
      Num(3), Deg(55, 67535625), Deg(12, 54444716), Str(T_Lejlighed)>>

\* rows for the cleaning step: the base row, the base row with its k-th cell
\* missing, with a text that is no date, and with another trade id
EjerCleanRows(k) ==
    {EjerBase, [EjerBase EXCEPT ![6] = Str(T_BadDate)], [EjerBase EXCEPT ![1] = Num(2)],
     [EjerBase EXCEPT ![k] = NaN]}

\* rows for the statistics: two cities, two room counts, two prices, and a
\* row the cleaning step drops
EjerStatsRows ==
    {[EjerBase EXCEPT ![5] = Str(T_Alhambravej15), ![7] = Num(2), ![2] = Num(3000000)],
     [EjerBase EXCEPT ![5] = Str(T_Blegdamsvej), ![7] = Num(3), ![2] = Num(2000000)],
     [EjerBase EXCEPT ![5] = Str(T_Alhambravej15), ![7] = Num(3), ![2] = Num(2000000)],
     [EjerBase EXCEPT ![5] = Str(T_Blegdamsvej), ![7] = Num(2), ![2] = Num(3000000)],
     [EjerBase EXCEPT ![3] = NaN]}

\* rental sheets with or without a construction year column, a property type
\* column and a monthly rent column (298-308, 337)
RentalHeaders ==
    {<<"Adresse", "By", "Lat", "Lng", "Areal", "Leje/m2", "Årsleje", "Liggedage",
       "Antal værelser", year, type, monthly>> :
        year \in {"", "Opførelsesår", "Byggeår"},
        type \in {"", "Boligtype", "Type"},
        monthly \in {"", "Leje/måned"}}

\* rows of two yearly rents that are no multiple of 12, with or without a
\* construction year and a property type, a stated monthly rent that is not
\* the twelfth of the yearly rent, and a row without an address
RentalRows ==
    {[LejeBase EXCEPT ![7] = Num(y), ![10] = year, ![11] = type] \o <<Num(9000)>> :
        y \in {100002, 100014},
        year \in {Num(1950), NaN},
        type \in {Str(T_Lejlighed), NaN}}
    \cup {[LejeBase EXCEPT ![1] = NaN] \o <<Num(9000)>>}

\* the 'Enheder' and 'Ejendomme' sheets of the workbooks that have them
EnhederSheet ==
    MakeSheet(<<"Handels-ID", "Antal værelser", "Latitude", "Longitude">>,
              << <<Num(1), Num(4), Deg(55, 69266957), Deg(12, 56496568)>> >>)
EjendommeSheet ==
    MakeSheet(<<"Handels-ID", "Opførelsesår">>, << <<Num(1), Num(1935)>> >>)

\* a workbook of one sheet, and one with the two optional sheets
Book(header, cells) ==
    [sheet_names |-> <<"Stamdata">>,
     sheets |-> [n \in {"Stamdata"} |-> MakeSheet(header, cells)]]

BookWithSheets(header, cells) ==
    [sheet_names |-> <<"Stamdata", "Enheder", "Ejendomme">>,
     sheets |-> [n \in {"Stamdata", "Enheder", "Ejendomme"} |->
                   IF n = "Stamdata" THEN MakeSheet(header, cells)
                   ELSE IF n = "Enheder" THEN EnhederSheet ELSE EjendommeSheet]]

(***************************************************************************)
(* Specification of the resolver                                           *)
(***************************************************************************)
IdleResolver ==
    /\ fc_columns = <<>>
    /\ fc_names = <<>>
    /\ fc_result = NotCalled

IdleRooms ==
    /\ er_area = <<NaN, NaN>>
    /\ er_rooms = NotCalled

IdleAddress ==
    /\ ad_text = NaN
    /\ ad_city = NotCalled
    /\ ad_coords = NotCalled

\* no report page is open
IdleReport ==
    /\ lejeData = <<>>
    /\ ejerData = <<>>
    /\ currentMode = "none"
    /\ allBoliger = <<>>
    /\ selectedFilters = NotCalled
    /\ year_slider = NotCalled
    /\ filtered = NotCalled
    /\ js_event = "none"

IdleMain ==
    /\ m_front = "none"
    /\ m_argc = 0
    /\ m_writable = FALSE
    /\ m_pc = "idle"
    /\ m_calls = <<>>
    /\ m_files = {}
    /\ m_end = NotCalled

IdlePipelines ==
    /\ leje_sheet = NotLoaded
    /\ leje_data = NotCalled
    /\ ejer_book = NotLoaded
    /\ ejer_data = NotCalled
    /\ prev_data = NotCalled
    /\ reclean = NotCalled

InitResolver ==
    /\ fc_columns \in {c \in SeqUpTo(ResolverNames, MaxCols) : Distinct(c)}
    /\ fc_names \in SeqUpTo(ResolverNames, MaxCand)
    /\ fc_result = NotCalled
    /\ IdleRooms
    /\ IdlePipelines
    /\ IdleAddress
    /\ IdleMain
    /\ IdleReport

CallFindColumn ==
    /\ fc_result = NotCalled
    /\ fc_result' = find_column(fc_columns, fc_names)
    /\ UNCHANGED <<reportVars, fc_columns, fc_names, roomsVars, pipelineVars, addressVars, mainVars>>

NextResolver == CallFindColumn

SpecResolver == InitResolver /\ [][NextResolver]_vars

(***************************************************************************)
(* Specification of the room estimate                                      *)
(***************************************************************************)
InitRooms ==
    /\ er_area \in Areas \X Areas
    /\ er_rooms = NotCalled
    /\ IdleResolver
    /\ IdlePipelines
    /\ IdleAddress
    /\ IdleMain
    /\ IdleReport

CallEstimateRooms ==
    /\ er_rooms = NotCalled
    /\ er_rooms' = [kind |-> "return",
                    value |-> <<estimate_rooms(er_area[1]), estimate_rooms(er_area[2])>>]
    /\ UNCHANGED <<reportVars, resolverVars, er_area, pipelineVars, addressVars, mainVars>>

NextRooms == CallEstimateRooms

SpecRooms == InitRooms /\ [][NextRooms]_vars

(***************************************************************************)
(* The pipelines                                                           *)
(***************************************************************************)
\* process_leje_data on the loaded sheet
RunLeje ==
    /\ leje_sheet # NotLoaded
    /\ leje_data = NotCalled
    /\ \E r \in process_leje_data(leje_sheet) : leje_data' = r
    /\ UNCHANGED <<reportVars, resolverVars, roomsVars, addressVars, mainVars, leje_sheet, ejer_book, ejer_data, prev_data,
                   reclean>>

\* process_ejer_data on the loaded workbook
RunEjer ==
    /\ ejer_book # NotLoaded
    /\ ejer_data = NotCalled
    /\ \E r \in process_ejer_data(ejer_book) : ejer_data' = r
    /\ UNCHANGED <<reportVars, resolverVars, roomsVars, addressVars, mainVars, leje_sheet, leje_data, ejer_book, prev_data,
                   reclean>>

\* the cleaning step of 349-351 run once more on the table it left
CleanAgainLeje ==
    /\ leje_data.kind = "return"
    /\ reclean = NotCalled
    /\ LET df == dropna(leje_data.df, LejeSubset)
       IN  reclean' = [kind |-> "return", df |-> df, dropped |-> len(leje_data.df) - len(df)]
    /\ UNCHANGED <<reportVars, resolverVars, roomsVars, addressVars, mainVars, leje_sheet, leje_data, ejer_book, ejer_data,
                   prev_data>>

\* the cleaning step of 591-593 run once more on the table it left
CleanAgainEjer ==
    /\ ejer_data.kind = "return"
    /\ reclean = NotCalled
    /\ LET df == dropna(ejer_data.df, EjerSubset)
       IN  reclean' = [kind |-> "return", df |-> df, dropped |-> len(ejer_data.df) - len(df)]
    /\ UNCHANGED <<reportVars, resolverVars, roomsVars, addressVars, mainVars, leje_sheet, leje_data, ejer_book, ejer_data,
                   prev_data>>

\* the sheet with its rows in the order p
PermuteRows(df, p) == [df EXCEPT !.rows = [k \in DOMAIN df.rows |-> df.rows[p[k]]]]

\* the permutations of 1..n that move something
Reorderings(n) == {p \in Perms(n) : \E k \in 1..n : p[k] # k}

\* the rental file comes back with its rows in another order
ReorderLeje ==
    /\ leje_data.kind = "return"
    /\ prev_data = NotCalled
    /\ \E p \in Reorderings(len(leje_sheet)) : leje_sheet' = PermuteRows(leje_sheet, p)
    /\ prev_data' = leje_data
    /\ leje_data' = NotCalled
    /\ UNCHANGED <<reportVars, resolverVars, roomsVars, addressVars, mainVars, ejer_book, ejer_data, reclean>>

\* the ownership file comes back with its rows in another order
ReorderEjer ==
    /\ ejer_data.kind = "return"
    /\ prev_data = NotCalled
    /\ \E p \in Reorderings(len(ejer_book.sheets["Stamdata"])) :
          ejer_book' = [ejer_book EXCEPT !.sheets["Stamdata"] = PermuteRows(@, p)]
    /\ prev_data' = ejer_data
    /\ ejer_data' = NotCalled
    /\ UNCHANGED <<reportVars, resolverVars, roomsVars, addressVars, mainVars, leje_sheet, leje_data, reclean>>

(***************************************************************************)
(* Specification of the cleaning step of the two pipelines                 *)
(***************************************************************************)
InitClean ==
    /\ IdleResolver
    /\ IdleRooms
    /\ IdleAddress
    /\ IdleMain
    /\ IdleReport
    /\ leje_data = NotCalled
    /\ ejer_data = NotCalled
    /\ prev_data = NotCalled
    /\ reclean = NotCalled
    /\ \/ /\ ejer_book = NotLoaded
          /\ \E header \in {LejeHeaderDa, LejeHeaderEn, LejeHeaderNoDays},
                k \in DOMAIN LejeBase :
                leje_sheet \in {MakeSheet(header, cells) :
                                   cells \in SeqUpTo(LejeCleanRows(k), MaxRows)}
       \/ /\ leje_sheet = NotLoaded
          /\ \E k \in DOMAIN EjerBase :
                \/ \E header \in {EjerHeaderFull, EjerHeaderMin, EjerHeaderNoPrice} :
                      ejer_book \in {Book(header, cells) :
                                        cells \in SeqUpTo(EjerCleanRows(k), MaxRows)}
                \/ ejer_book \in {BookWithSheets(EjerHeaderMin, cells) :
                                     cells \in SeqUpTo(EjerCleanRows(k), MaxRows)}

NextClean == RunLeje \/ RunEjer \/ CleanAgainLeje \/ CleanAgainEjer

SpecClean == InitClean /\ [][NextClean]_vars

(***************************************************************************)
(* Specification of the statistics of the two pipelines                    *)
(***************************************************************************)
InitStats ==
    /\ IdleResolver
    /\ IdleRooms
    /\ IdleAddress
    /\ IdleMain
    /\ IdleReport
    /\ leje_data = NotCalled
    /\ ejer_data = NotCalled
    /\ prev_data = NotCalled
    /\ reclean = NotCalled
    /\ \/ /\ ejer_book = NotLoaded
          /\ leje_sheet \in {MakeSheet(LejeHeaderDa, cells) :
                                cells \in SeqUpTo(LejeStatsRows, MaxRows)}
       \/ /\ leje_sheet = NotLoaded
          /\ ejer_book \in {Book(EjerHeaderFull, cells) :
                               cells \in SeqUpTo(EjerStatsRows, MaxRows)}

NextStats == RunLeje \/ RunEjer \/ ReorderLeje \/ ReorderEjer

SpecStats == InitStats /\ [][NextStats]_vars

(***************************************************************************)
(* Specification of the rental pipeline on sheets with optional columns    *)
(***************************************************************************)
InitRental ==
    /\ IdleResolver
    /\ IdleRooms
    /\ IdleAddress
    /\ IdleMain
    /\ IdleReport
    /\ ejer_book = NotLoaded
    /\ leje_data = NotCalled
    /\ ejer_data = NotCalled
    /\ prev_data = NotCalled
    /\ reclean = NotCalled
    /\ leje_sheet \in {MakeSheet(header, <<first, second>>) :
                          header \in RentalHeaders,
                          first \in RentalRows,
                          second \in RentalRows}

NextRental == RunLeje

SpecRental == InitRental /\ [][NextRental]_vars

(***************************************************************************)
(* Specification of the address helpers                                    *)
(***************************************************************************)
MaxTokens == 4      \* pieces a trade text is put together from

\* pieces of a trade text "<address>, <postal code> <city words>"
CityTokens ==
    {<<"V", "e", "j">>, <<"2", "2", "0", "0">>, <<" ", "N">>, <<" ">>, <<",">>,
     <<" ", "U", "k", "e", "n", "d", "t">>}

T_Griffenfeldsgade ==
    known_addresses[1].addr
        \o <<",", " ", "2", "2", "0", "0", " ", "K", "ø", "b", "e", "n", "h", "a", "v", "n", " ", "N">>
T_SecondFloor ==
    <<"V", "e", "j", " ", "1", ",", " ", "2", ".", " ", "s", "a", "l", ",", " ", "2", "2", "0", "0", " ", "K", "b", "h", " ", "N">>
T_UnknownStreet ==
    <<"U", "n", "k", "n", "o", "w", "n", " ", "S", "t", "r", "e", "e", "t", " ", "9", "9">>

\* str.upper(), to write an address in capitals
upper(text) ==
    [i \in DOMAIN text |->
        IF \E k \in DOMAIN LowerChars : LowerChars[k] = text[i]
        THEN UpperChars[CHOOSE k \in DOMAIN LowerChars : LowerChars[k] = text[i]]
        ELSE text[i]]

\* trade texts around the known addresses: as declared, in small letters, in
\* capitals, cut short by a character, inside a longer text, and two at once
GeoTexts ==
    LET keys == {known_addresses[k].addr : k \in DOMAIN known_addresses}
        written == keys \cup {lower(a) : a \in keys} \cup {upper(a) : a \in keys}
                        \cup {SubSeq(a, 1, Len(a) - 1) : a \in keys}
    IN  written
          \cup {<<"x", " ">> \o a \o <<",", " ", "2", "2", "0", "0", " ", "N">> : a \in written}
          \cup {a \o <<" ", "o", "g", " ">> \o lower(b) : a \in keys, b \in keys}

AddressCells ==
    {Str(Flatten(tokens)) : tokens \in SeqUpTo(CityTokens, MaxTokens)}
      \cup {Str(text) : text \in GeoTexts}
      \cup {Str(T_Griffenfeldsgade), Str(T_SecondFloor), Str(T_UnknownStreet), NaN,
            Num(2200)}

InitAddress ==
    /\ ad_text \in AddressCells
    /\ ad_city = NotCalled
    /\ ad_coords = NotCalled
    /\ IdleResolver
    /\ IdleRooms
    /\ IdlePipelines
    /\ IdleMain
    /\ IdleReport

\* parse_city_from_handelsnavn(ad_text); a numeric cell is neither missing
\* nor has it a .split
CallParseCity ==
    /\ ad_city = NotCalled
    /\ ad_city' = IF ad_text.t = "num"
                  THEN [kind |-> "raise", exc |-> [type |-> "AttributeError"]]
                  ELSE [kind |-> "return", value |-> parse_city_from_handelsnavn(ad_text)]
    /\ UNCHANGED <<reportVars, resolverVars, roomsVars, pipelineVars, mainVars, ad_text, ad_coords>>

\* geocode_address(ad_text)
CallGeocode ==
    /\ ad_coords = NotCalled
    /\ ad_coords' = geocode_address(ad_text)
    /\ UNCHANGED <<reportVars, resolverVars, roomsVars, pipelineVars, mainVars, ad_text, ad_city>>

NextAddress == CallParseCity \/ CallGeocode

SpecAddress == InitAddress /\ [][NextAddress]_vars

(***************************************************************************)
(* A run: main (generate_dashboard.py 1747-1775) and the handler of the    *)
(* generate button (streamlit_app.py 175-260)                              *)
(***************************************************************************)
\* process_leje_data(excel_path): pd.read_excel (281-284) of a path that
\* names no workbook raises
LejeFromPath(file) ==
    IF file = NotLoaded THEN {Raise("FileNotFoundError")} ELSE process_leje_data(file)

\* process_ejer_data(excel_path): pd.ExcelFile (422) of a path that names no
\* workbook raises
EjerFromPath(file) ==
    IF file = NotLoaded THEN {Raise("FileNotFoundError")} ELSE process_ejer_data(file)

\* generate_html: the page carries the two results (1735-1741); open() of a
\* path that cannot be written raises
generate_html(leje, ejer, writable) ==
    IF writable
    THEN [kind |-> "return", html |-> [leje |-> leje.value.total_boliger,
                                       ejer |-> ejer.value.total_boliger]]
    ELSE Raise("PermissionError")

\* every result goes on to the next step
AfterCall_always(r, next) == next

\* where a run is after a call with the outcome r: the except clauses
\* (1768-1775, 254) end the try block
AfterCall(r, next) == IF r.kind = "raise" THEN "done" ELSE next

\* the except clauses leave with status 0
Failed_status0(front) ==
    IF front = "cli" THEN [kind |-> "exit", status |-> 0] ELSE [kind |-> "error-box"]

\* the except clauses: sys.exit(1) for KeyError (1768-1771) and for every
\* other Exception (1772-1775); the page shows the error box (254-260)
Failed(front) ==
    IF front = "cli" THEN [kind |-> "exit", status |-> 1] ELSE [kind |-> "error-box"]

\* how a run ends after a call with outcome r, if it ends there
EndAfter(r, front, end) == IF r.kind = "raise" THEN Failed(front) ELSE end

\* the files of a run: one rental file and one ownership workbook, each
\* possibly a path that names no workbook, of up to two rows
MainLejeFiles ==
    {NotLoaded} \cup
    {MakeSheet(header, cells) :
        header \in {LejeHeaderDa, LejeHeaderNoDays},
        cells \in SeqUpTo({LejeBase, [LejeBase EXCEPT ![5] = NaN]}, 2)}

MainEjerFiles ==
    {NotLoaded} \cup
    {Book(header, cells) :
        header \in {EjerHeaderFull, EjerHeaderNoPrice},
        cells \in SeqUpTo({EjerBase, [EjerBase EXCEPT ![5] = NaN]}, 2)}

InitMain ==
    /\ IdleResolver
    /\ IdleRooms
    /\ IdleAddress
    /\ IdleReport
    /\ leje_sheet \in MainLejeFiles
    /\ ejer_book \in MainEjerFiles
    /\ leje_data = NotCalled
    /\ ejer_data = NotCalled
    /\ prev_data = NotCalled
    /\ reclean = NotCalled
    /\ \/ m_front = "cli" /\ m_argc \in {1, 4, 5} /\ m_writable \in BOOLEAN
       \/ m_front = "ui" /\ m_argc = 0 /\ m_writable = TRUE
    /\ m_pc = "start"
    /\ m_calls = <<>>
    /\ m_files = {}
    /\ m_end = NotCalled

\* main up to the try block (1748-1754)
MainStart ==
    /\ m_pc = "start"
    /\ m_front = "cli"
    /\ IF m_argc # 4
       THEN m_pc' = "done" /\ m_end' = [kind |-> "exit", status |-> 1]
       ELSE m_pc' = "leje" /\ UNCHANGED m_end
    /\ UNCHANGED <<reportVars, resolverVars, roomsVars, pipelineVars, addressVars, m_front, m_argc,
                   m_writable, m_calls, m_files>>

\* the button handler up to the first pipeline (175-185): the uploads are
\* saved to two temporary files
UiStart ==
    /\ m_pc = "start"
    /\ m_front = "ui"
    /\ m_files' = {[name |-> "tmp_leje.xlsx"], [name |-> "tmp_ejer.xlsx"]}
    /\ m_pc' = "leje"
    /\ UNCHANGED <<reportVars, resolverVars, roomsVars, pipelineVars, addressVars, m_front, m_argc,
                   m_writable, m_calls, m_end>>

\* leje_data = process_leje_data(...) (1758, 193)
CallLeje ==
    /\ m_pc = "leje"
    /\ m_calls' = Append(m_calls, "process_leje_data")
    /\ \E r \in LejeFromPath(leje_sheet) :
          /\ leje_data' = r
          /\ m_pc' = AfterCall(r, "ejer")
          /\ m_end' = EndAfter(r, m_front, m_end)
    /\ UNCHANGED <<reportVars, resolverVars, roomsVars, addressVars, leje_sheet, ejer_book, ejer_data,
                   prev_data, reclean, m_front, m_argc, m_writable, m_files>>

\* ejer_data = process_ejer_data(...) (1761, 197)
CallEjer ==
    /\ m_pc = "ejer"
    /\ m_calls' = Append(m_calls, "process_ejer_data")
    /\ \E r \in EjerFromPath(ejer_book) :
          /\ ejer_data' = r
          /\ m_pc' = AfterCall(r, "html")
          /\ m_end' = EndAfter(r, m_front, m_end)
    /\ UNCHANGED <<reportVars, resolverVars, roomsVars, addressVars, leje_sheet, leje_data, ejer_book,
                   prev_data, reclean, m_front, m_argc, m_writable, m_files>>

\* the files a run leaves after generate_html returned page: the command
\* line its output file (1764), the upload page none (216-217, 252)
FilesAfter(front, files, page) ==
    IF page.kind = "raise" THEN files
    ELSE IF front = "cli" THEN files \cup {[name |-> "output_html", html |-> page.html]}
    ELSE {}

\* how a run ends after generate_html returned page: main returns (1766),
\* the upload page offers the download (235-241)
Finished(front, page) ==
    IF front = "cli" THEN [kind |-> "exit", status |-> 0]
    ELSE [kind |-> "download", html |-> page.html]

\* generate_html(leje_data, ejer_data, ...) and the rest of the try block
\* (1764-1766, 203-252)
CallHtml ==
    /\ m_pc = "html"
    /\ m_calls' = Append(m_calls, "generate_html")
    /\ \E page \in {generate_html(leje_data, ejer_data, m_writable)} :
          /\ m_files' = FilesAfter(m_front, m_files, page)
          /\ m_end' = EndAfter(page, m_front, Finished(m_front, page))
    /\ m_pc' = "done"
    /\ UNCHANGED <<reportVars, resolverVars, roomsVars, pipelineVars, addressVars, m_front, m_argc,
                   m_writable>>

NextMain == MainStart \/ UiStart \/ CallLeje \/ CallEjer \/ CallHtml

SpecMain == InitMain /\ [][NextMain]_vars

(***************************************************************************)
(* Specification of the optional columns and sheets of the ownership       *)
(* workbook                                                                *)
(***************************************************************************)
\* first sheets with every required column and each combination of the
\* optional ones: the merge key, a room count under two names, the
\* coordinates, the usage and the construction year
PrimaryHeaders ==
    {<<hid, "Pris", "Enhedsareal", "Pris pr. m2 (enhedsareal)", "Handelsnavn",
       "Handelsdato", rooms, c[1], c[2], anv, year>> :
        hid \in {"Handels-ID", ""},
        rooms \in {"", "Antal Værelser", "Værelser"},
        c \in {<<"lat", "lng">>, <<"", "">>},
        anv \in {"Anvendelse", ""},
        year \in {"Opførelsesår", ""}}

\* two trades, the second one unknown to the other sheets
PrimaryRows ==
    <<EjerBase \o <<Num(1950)>>, [EjerBase EXCEPT ![1] = Num(2)] \o <<Num(1950)>> >>

\* an 'Enheder' sheet with two units of the first trade
EnhederTwoUnits ==
    MakeSheet(<<"Handels-ID", "Antal værelser">>,
              << <<Num(1), Num(2)>>, <<Num(1), Num(3)>> >>)

\* an 'Ejendomme' sheet with two buildings of the first trade
EjendommeTwoBuildings ==
    MakeSheet(<<"Handels-ID", "Opførelsesår">>,
              << <<Num(1), Num(1935)>>, <<Num(1), Num(1960)>> >>)

\* the 'Enheder' sheet with or without its key, room count and coordinates,
\* or no such sheet; one sheet lists a trade twice
EnhederSheets ==
    {NotLoaded, EnhederTwoUnits} \cup
    {MakeSheet(<<hid, rooms, c[1], c[2]>>,
               << <<Num(1), Num(2), Deg(55, 69266957), Deg(12, 56496568)>> >>) :
        hid \in {"Handels-ID", ""},
        rooms \in {"", "Antal værelser", "Antal Værelser", "Værelser"},
        c \in {<<"Latitude", "Longitude">>, <<"", "">>}}

\* the 'Ejendomme' sheet with or without its key and year, or no such sheet
EjendommeSheets ==
    {NotLoaded, EjendommeTwoBuildings} \cup
    {MakeSheet(<<hid, year>>, << <<Num(1), Num(1935)>> >>) :
        hid \in {"Handels-ID", ""},
        year \in {"", "Opførelsesår", "Byggeår"}}

\* the workbook of a first sheet and the optional sheets that are there
MakeBook(header, enheder, ejendomme) ==
    [sheet_names |-> <<"Stamdata">>
                        \o (IF enheder # NotLoaded THEN <<"Enheder">> ELSE <<>>)
                        \o (IF ejendomme # NotLoaded THEN <<"Ejendomme">> ELSE <<>>),
     sheets |-> [n \in {"Stamdata"}
                         \cup (IF enheder # NotLoaded THEN {"Enheder"} ELSE {})
                         \cup (IF ejendomme # NotLoaded THEN {"Ejendomme"} ELSE {}) |->
                   IF n = "Stamdata" THEN MakeSheet(header, PrimaryRows)
                   ELSE IF n = "Enheder" THEN enheder ELSE ejendomme]]

InitBooks ==
    /\ IdleResolver
    /\ IdleRooms
    /\ IdleAddress
    /\ IdleMain
    /\ IdleReport
    /\ leje_sheet = NotLoaded
    /\ leje_data = NotCalled
    /\ ejer_book \in {MakeBook(header, enheder, ejendomme) :
                         header \in PrimaryHeaders,
                         enheder \in EnhederSheets,
                         ejendomme \in EjendommeSheets}
    /\ ejer_data = NotCalled
    /\ prev_data = NotCalled
    /\ reclean = NotCalled

NextBooks == RunEjer

SpecBooks == InitBooks /\ [][NextBooks]_vars

(***************************************************************************)
(* The report page: the script of the generated HTML                       *)
(* (generate_dashboard.py 976-992, 1231-1291, 1345-1455, 1681-1722)        *)
(***************************************************************************)
null == [t |-> "null"]

\* the data object of a mode (1253, 1272, 1346, 1428)
DataOf(mode) == IF mode = "leje" THEN lejeData ELSE ejerData

\* currentMode === 'leje' ? bolig.boligtype : bolig.anvendelse (1241, 1445)
typeValue(mode, bolig) == IF mode = "leje" THEN bolig.boligtype ELSE bolig.anvendelse

\* [...new Set(numbers)].sort((a,b) => a-b): the distinct numeric cells in
\* ascending order
SortNumbers(S) ==
    CHOOSE q \in [1..Cardinality(S) -> S] :
        \A i, j \in DOMAIN q : i < j => q[i].n < q[j].n

\* the texts of the listings in the order of Array.prototype.sort()
TextOrder == <<"Aarhus", "Ikke angivet", "Kbh", "Lejlighed">>
TextRank(x) == CHOOSE i \in DOMAIN TextOrder : TextOrder[i] = x

\* [...new Set(texts)].sort()
SortTexts(S) ==
    CHOOSE q \in [1..Cardinality(S) -> S] :
        \A i, j \in DOMAIN q : i < j => TextRank(q[i]) < TextRank(q[j])

\* the construction years of the listings that have one (1284, 1351)
YearsOf(boliger) == {b.opfoerelsesaar : b \in Range(boliger)} \ {null}

MinYear(aar) == CHOOSE y \in aar : \A z \in aar : y.n <= z.n
MaxYear(aar) == CHOOSE y \in aar : \A z \in aar : y.n >= z.n

\* a mutant: the selected cities are left as they are
initializeFilters_keep_by(boliger, mode, sf) ==
    [varelser |-> SortNumbers({b.varelser : b \in Range(boliger)}),
     by |-> sf.by,
     aarMin |-> IF YearsOf(boliger) # {} THEN MinYear(YearsOf(boliger)) ELSE sf.aarMin,
     aarMax |-> IF YearsOf(boliger) # {} THEN MaxYear(YearsOf(boliger)) ELSE sf.aarMax,
     type |-> SortTexts({typeValue(mode, b) : b \in Range(boliger)})]

\* initializeFilters(data) (1279-1291) on the filters sf: every value of the
\* listings is selected; the year range is set only when a listing has a year
initializeFilters(boliger, mode, sf) ==
    [varelser |-> SortNumbers({b.varelser : b \in Range(boliger)}),
     by |-> SortTexts({b.by : b \in Range(boliger)}),
     aarMin |-> IF YearsOf(boliger) # {} THEN MinYear(YearsOf(boliger)) ELSE sf.aarMin,
     aarMax |-> IF YearsOf(boliger) # {} THEN MaxYear(YearsOf(boliger)) ELSE sf.aarMax,
     type |-> SortTexts({typeValue(mode, b) : b \in Range(boliger)})]

\* a value that is false in a condition: null or 0
Falsy(c) == c = null \/ c.n = 0

\* the value a range input takes when v is assigned to it
Clamp(v, lo, hi) == IF v < lo THEN lo ELSE IF v > hi THEN hi ELSE v

\* the year part of updateFilterContent (1393-1413): the filters and the
\* range inputs it leaves
updateFilterContent(boliger, sf, slider) ==
    IF YearsOf(boliger) = {} THEN [sf |-> sf, slider |-> [slider EXCEPT !.shown = FALSE]]
    ELSE LET minYear == MinYear(YearsOf(boliger))
             maxYear == MaxYear(YearsOf(boliger))
             aarMin == IF Falsy(sf.aarMin) THEN minYear ELSE sf.aarMin
             aarMax == IF Falsy(sf.aarMax) THEN maxYear ELSE sf.aarMax
         IN  [sf |-> [sf EXCEPT !.aarMin = aarMin, !.aarMax = aarMax],
              slider |-> [shown |-> TRUE, min |-> minYear.n, max |-> maxYear.n,
                          lo |-> Clamp(aarMin.n, minYear.n, maxYear.n),
                          hi |-> Clamp(aarMax.n, minYear.n, maxYear.n)]]

\* array.includes(value)
includes(array, value) == value \in Range(array)

\* aarMatch (1239-1241, 1441-1443)
aarMatch(bolig, sf) ==
    \/ bolig.opfoerelsesaar = null
    \/ /\ (sf.aarMin = null \/ bolig.opfoerelsesaar.n >= sf.aarMin.n)
       /\ (sf.aarMax = null \/ bolig.opfoerelsesaar.n <= sf.aarMax.n)

\* typeMatch (1242-1243, 1445-1446)
typeMatch(bolig, sf, mode) == Len(sf.type) = 0 \/ includes(sf.type, typeValue(mode, bolig))

\* the listings updateDisplay passes on (1435-1449)
DisplayFiltered(boliger, sf, mode) ==
    SelectSeq(boliger, LAMBDA bolig :
        /\ includes(sf.varelser, bolig.varelser)
        /\ includes(sf.by, bolig.by)
        /\ aarMatch(bolig, sf)
        /\ typeMatch(bolig, sf, mode))

\* the listings updateInteractiveCharts passes on (1232-1246)
ChartsFiltered(boliger, sf, mode) ==
    SelectSeq(boliger, LAMBDA bolig :
        /\ (Len(sf.varelser) = 0 \/ includes(sf.varelser, bolig.varelser))
        /\ (Len(sf.by) = 0 \/ includes(sf.by, bolig.by))
        /\ aarMatch(bolig, sf)
        /\ typeMatch(bolig, sf, mode))

\* updateDisplay() (1434-1455), which ends in updateInteractiveCharts()
updateDisplay(boliger, sf, mode) ==
    filtered' = [display |-> DisplayFiltered(boliger, sf, mode),
                 charts |-> ChartsFiltered(boliger, sf, mode)]

\* updateFilterContent(); updateDisplay(); on the filters sf
ContentAndDisplay(boliger, sf, mode) ==
    /\ selectedFilters' = updateFilterContent(DataOf(mode), sf, year_slider).sf
    /\ year_slider' = updateFilterContent(DataOf(mode), sf, year_slider).slider
    /\ updateDisplay(boliger, updateFilterContent(DataOf(mode), sf, year_slider).sf, mode)

\* the initial setup at the end of the script (1718-1722)
InitialSetup ==
    /\ js_event = "load"
    /\ ContentAndDisplay(allBoliger, initializeFilters(lejeData, currentMode, selectedFilters),
                         currentMode)
    /\ js_event' = "setup"
    /\ UNCHANGED <<resolverVars, roomsVars, pipelineVars, addressVars, mainVars, lejeData,
                   ejerData, currentMode, allBoliger>>

\* array.splice(array.indexOf(value), 1)
Splice(array, value) ==
    LET index == CHOOSE i \in DOMAIN array :
                    array[i] = value /\ \A j \in 1..(i - 1) : array[j] # value
    IN  SubSeq(array, 1, index - 1) \o SubSeq(array, index + 1, Len(array))

\* the values the filter buttons of a group offer (1347-1352, 1358-1386): the
\* type group is shown for one to nine types
ButtonValues(type) ==
    IF type = "varelser" THEN {b.varelser : b \in Range(DataOf(currentMode))}
    ELSE IF type = "by" THEN {b.by : b \in Range(DataOf(currentMode))}
    ELSE LET typer == {typeValue(currentMode, b) : b \in Range(DataOf(currentMode))}
         IN  IF Cardinality(typer) > 0 /\ Cardinality(typer) < 10 THEN typer ELSE {}

\* toggleFilter(type, value) (1416-1425), from a filter button
toggleFilter ==
    /\ js_event \notin {"none", "load"}
    /\ \E type \in {"varelser", "by", "type"} :
          \E value \in ButtonValues(type) :
             ContentAndDisplay(allBoliger,
                               [selectedFilters EXCEPT
                                   ![type] = IF includes(@, value) THEN Splice(@, value)
                                             ELSE Append(@, value)],
                               currentMode)
    /\ js_event' = "toggleFilter"
    /\ UNCHANGED <<resolverVars, roomsVars, pipelineVars, addressVars, mainVars, lejeData,
                   ejerData, currentMode, allBoliger>>

\* resetFilters() (1427-1432), from the reset button
resetFilters ==
    /\ js_event \notin {"none", "load"}
    /\ ContentAndDisplay(allBoliger,
                         initializeFilters(DataOf(currentMode), currentMode, selectedFilters),
                         currentMode)
    /\ js_event' = "resetFilters"
    /\ UNCHANGED <<resolverVars, roomsVars, pipelineVars, addressVars, mainVars, lejeData,
                   ejerData, currentMode, allBoliger>>

\* switchMode(mode) (1260-1277), from a mode button
switchMode ==
    /\ js_event \notin {"none", "load"}
    /\ \E mode \in {"leje", "ejer"} :
          /\ currentMode' = mode
          /\ allBoliger' = DataOf(mode)
          /\ ContentAndDisplay(DataOf(mode),
                               initializeFilters(DataOf(mode), mode, selectedFilters), mode)
    /\ js_event' = "switchMode"
    /\ UNCHANGED <<resolverVars, roomsVars, pipelineVars, addressVars, mainVars, lejeData,
                   ejerData>>

\* the range inputs after the thumb which was moved to v, swapped when the
\* lower one passed the upper one (1682-1692)
SliderMoved(slider, which, v) ==
    LET moved == [slider EXCEPT ![which] = v]
    IN  IF moved.lo > moved.hi THEN [moved EXCEPT !.lo = moved.hi, !.hi = moved.lo]
        ELSE moved

\* updateYearSlider() (1681-1710), from an input event of a range input
updateYearSlider ==
    /\ js_event \notin {"none", "load"}
    /\ year_slider.shown
    /\ \E which \in {"lo", "hi"} :
          \E v \in (year_slider.min..year_slider.max) \ {year_slider[which]} :
             /\ year_slider' = SliderMoved(year_slider, which, v)
             /\ selectedFilters' =
                   [selectedFilters EXCEPT
                       !.aarMin = Num(SliderMoved(year_slider, which, v).lo),
                       !.aarMax = Num(SliderMoved(year_slider, which, v).hi)]
             /\ updateDisplay(allBoliger, selectedFilters', currentMode)
    /\ js_event' = "updateYearSlider"
    /\ UNCHANGED <<resolverVars, roomsVars, pipelineVars, addressVars, mainVars, lejeData,
                   ejerData, currentMode, allBoliger>>

\* the listings of a mode: two room counts, two cities, two construction
\* years or none, two types
ReportListings(mode) ==
    [i \in 1..3 |->
        LET b == << <<2, "Kbh", Num(1950), "Lejlighed">>,
                    <<3, "Aarhus", Num(1952), "Ikke angivet">>,
                    <<3, "Kbh", null, "Lejlighed">> >>[i]
        IN  IF mode = "leje"
            THEN [varelser |-> Num(b[1]), by |-> b[2], opfoerelsesaar |-> b[3],
                  boligtype |-> b[4]]
            ELSE [varelser |-> Num(b[1]), by |-> b[2], opfoerelsesaar |-> b[3],
                  anvendelse |-> b[4]]]

\* the listings a run returned: one or two of them, never none (375, 617)
ReportData(mode) ==
    {<<ReportListings(mode)[i]>> : i \in 1..3}
    \cup {<<ReportListings(mode)[p[1]], ReportListings(mode)[p[2]]>> :
             p \in {q \in (1..3) \X (1..3) : q[1] < q[2]}}

(***************************************************************************)
(* Specification of the report page                                        *)
(***************************************************************************)
\* the page after the declarations of 976-992, before the initial setup
InitReport ==
    /\ IdleResolver
    /\ IdleRooms
    /\ IdleAddress
    /\ IdleMain
    /\ IdlePipelines
    /\ lejeData \in ReportData("leje")
    /\ ejerData \in ReportData("ejer")
    /\ currentMode = "leje"
    /\ allBoliger = lejeData
    /\ selectedFilters = [varelser |-> <<>>, by |-> <<>>, aarMin |-> null, aarMax |-> null,
                          type |-> <<>>]
    /\ year_slider = [shown |-> FALSE, min |-> 0, max |-> 100, lo |-> 50, hi |-> 50]
    /\ filtered = NotCalled
    /\ js_event = "load"

NextReport == InitialSetup \/ toggleFilter \/ resetFilters \/ switchMode \/ updateYearSlider

SpecReport == InitReport /\ [][NextReport]_vars

(***************************************************************************)
(* Claims about the column resolver                                        *)
(***************************************************************************)
SomeCandidatePresent == \E i \in DOMAIN fc_names : fc_names[i] \in Range(fc_columns)

\* C1: when at least one candidate is a column of the table, find_column
\* returns the candidate with the smallest list index that is a column,
\* whatever the order of the table's columns and however many non-matching
\* candidates precede it.
C1_FirstCandidateReturned ==
    (fc_result # NotCalled /\ SomeCandidatePresent) =>
        /\ fc_result.kind = "return"
        /\ \E i \in DOMAIN fc_names :
              /\ fc_result.value = fc_names[i]
              /\ fc_names[i] \in Range(fc_columns)
              /\ \A j \in 1..(i - 1) : fc_names[j] \notin Range(fc_columns)

\* C1 witness: the second candidate is returned after a non-matching first
\* one, although a later candidate is the table's first column.
C1_Witness ==
    /\ fc_result # NotCalled
    /\ fc_result.kind = "return"
    /\ Len(fc_names) = 3
    /\ Len(fc_columns) >= 2
    /\ fc_names[1] \notin Range(fc_columns)
    /\ fc_result.value = fc_names[2]
    /\ fc_columns[1] = fc_names[3]
    /\ fc_names[3] # fc_names[2]

\* what an exception object carries: the values of its fields besides its type
Carries(exc, x) == \E f \in DOMAIN exc \ {"type"} : exc[f] = x

\* the column names listed on stdout, in the order printed
PrintedColumns(stdout) ==
    LET idx == {i \in DOMAIN stdout : stdout[i].line = "kolonne"}
        nth(k) == CHOOSE i \in idx : Cardinality({j \in idx : j < i}) = k - 1
    IN  [k \in 1..Cardinality(idx) |-> stdout[nth(k)].col]

\* C2 (as claimed): when no candidate is a column, find_column fails and the
\* failure it raises carries both the candidate list and the table's column
\* names in their original order.
C2_ExceptionCarriesColumns ==
    (fc_result # NotCalled /\ ~SomeCandidatePresent) =>
        /\ fc_result.kind = "raise"
        /\ Carries(fc_result.exc, fc_names)
        /\ Carries(fc_result.exc, fc_columns)

\* C2 (amended): when no candidate is a column, find_column raises a
\* KeyError that carries the full candidate list only; the table's column
\* names are printed to stdout before the raise, one per line, exactly the
\* table's columns in their original order.
C2_KeyErrorAndPrintedColumns ==
    (fc_result # NotCalled) =>
        /\ (fc_result.kind = "raise") <=> ~SomeCandidatePresent
        /\ fc_result.kind = "raise" =>
              /\ fc_result.exc.type = "KeyError"
              /\ fc_result.exc.possible_names = fc_names
              /\ DOMAIN fc_result.exc = {"type", "possible_names"}
              /\ PrintedColumns(fc_result.stdout) = fc_columns

\* C2 witness: a failed resolution over a table of several columns.
C2_Witness ==
    /\ fc_result # NotCalled
    /\ fc_result.kind = "raise"
    /\ Len(fc_columns) >= 2
    /\ Len(fc_names) >= 2
    /\ fc_names[1] # fc_names[2]

(***************************************************************************)
(* Claims about the room estimate                                          *)
(***************************************************************************)
\* the step function of the claim, written out by its intervals
StepOfArea(a) ==
    CASE a < 50 -> 2
      [] a >= 50 /\ a < 75 -> 3
      [] a >= 75 /\ a < 100 -> 4
      [] a >= 100 /\ a < 125 -> 5
      [] a >= 125 -> 6

BoundaryValue(a) ==
    CASE a = 49 -> 2 [] a = 50 -> 3 [] a = 74 -> 3 [] a = 75 -> 4
      [] a = 99 -> 4 [] a = 100 -> 5 [] a = 124 -> 5 [] a = 125 -> 6

\* C10: the room estimate is the step function of area (<50: 2, <75: 3,
\* <100: 4, <125: 5, else 6), non-decreasing in area and exact at the
\* boundaries 49/50, 74/75, 99/100, 124/125.
C10_RoomEstimateStepFunction ==
    (er_rooms # NotCalled) =>
        /\ \A k \in 1..2 :
              er_area[k].t = "num" =>
                 /\ er_rooms.value[k] = StepOfArea(er_area[k].n)
                 /\ er_area[k].n \in {49, 50, 74, 75, 99, 100, 124, 125} =>
                       er_rooms.value[k] = BoundaryValue(er_area[k].n)
        /\ (er_area[1].t = "num" /\ er_area[2].t = "num"
               /\ er_area[1].n <= er_area[2].n) =>
              er_rooms.value[1] <= er_rooms.value[2]

\* C10 witness: the estimate has been taken on both sides of a boundary.
C10_Witness ==
    /\ er_rooms # NotCalled
    /\ er_area = <<Num(49), Num(50)>>
    /\ er_rooms.value = <<2, 3>>

(***************************************************************************)
(* Claims about the cleaning step and the listings                         *)
(***************************************************************************)
\* the column of the loaded rental sheet that find_column resolves for the
\* k-th required field
LejeResolved(k) == LejeRequired[k][FirstPresent(LejeRequired[k], leje_sheet.columns)]

\* the rows of the loaded rental sheet that miss no required field
LejeCompleteRows ==
    SelectSeq(leje_sheet.rows,
              LAMBDA r : \A k \in DOMAIN LejeRequired : notna(r[LejeResolved(k)]))

\* a listing whose every field but opfoerelsesaar holds a value
LejeListingFilled(b) ==
    /\ b.adresse # T_nan
    /\ b.by # T_nan
    /\ b.boligtype # T_nan
    /\ b.lat \in Int \X Int
    /\ b.lng \in Int \X Int
    /\ \A f \in {"areal", "leje_m2", "leje_maned", "liggedage", "varelser"} : b[f] \in Int

\* C3: every rental listing returned by process_leje_data has a value in
\* every field except the construction year, and the listings are exactly
\* the input rows that miss none of the nine required fields, in their
\* order: a row missing one is dropped, counted and never listed.
C3_ListingsComplete ==
    (leje_data.kind = "return") =>
        /\ Len(leje_data.value.boliger) = Len(LejeCompleteRows)
        /\ leje_data.dropped = len(leje_sheet) - Len(LejeCompleteRows)
        /\ \A i \in DOMAIN leje_data.value.boliger :
              /\ LejeListingFilled(leje_data.value.boliger[i])
              /\ leje_data.value.boliger[i].adresse = LejeCompleteRows[i][LejeResolved(1)].s
              /\ leje_data.value.boliger[i].by = LejeCompleteRows[i][LejeResolved(2)].s
              /\ leje_data.value.boliger[i].lat = float(LejeCompleteRows[i][LejeResolved(3)])
              /\ leje_data.value.boliger[i].lng = float(LejeCompleteRows[i][LejeResolved(4)])
              /\ leje_data.value.boliger[i].areal = LejeCompleteRows[i][LejeResolved(5)].n
              /\ leje_data.value.boliger[i].leje_m2 = LejeCompleteRows[i][LejeResolved(6)].n
              /\ leje_data.value.boliger[i].liggedage = LejeCompleteRows[i][LejeResolved(8)].n
              /\ leje_data.value.boliger[i].varelser = LejeCompleteRows[i][LejeResolved(9)].n

\* C3 witness: a run that dropped a row and listed another one whose
\* construction year is missing.
C3_Witness ==
    /\ leje_data.kind = "return"
    /\ leje_data.dropped >= 1
    /\ \E i \in DOMAIN leje_data.value.boliger :
          leje_data.value.boliger[i].opfoerelsesaar = PyNone

\* a text of the form YYYY-MM-DD
IsIsoDate(s) ==
    /\ Len(s) = 10
    /\ s[5] = "-"
    /\ s[8] = "-"
    /\ \A i \in {1, 2, 3, 4, 6, 7, 9, 10} : s[i] \in Range(DigitChars)

\* C4 (as claimed): every ownership listing returned by process_ejer_data
\* has a trade date that is a YYYY-MM-DD text; no listing carries a missing
\* or non-date trade date.
C4_TradeDateIsIso ==
    (ejer_data.kind = "return") =>
        \A i \in DOMAIN ejer_data.value.boliger :
            IsIsoDate(ejer_data.value.boliger[i].handelsdato)

\* C6: the cleaning step applied to a table it has already cleaned drops no
\* row and leaves the table as it was, in both pipelines.
C6_CleaningIdempotent ==
    (reclean # NotCalled) =>
        /\ reclean.dropped = 0
        /\ leje_data.kind = "return" => reclean.df = leje_data.df
        /\ ejer_data.kind = "return" => reclean.df = ejer_data.df

\* C6 witness: the ownership table, cleaned of a row, has been cleaned again
\* with rows left in it.
C6_Witness ==
    /\ reclean # NotCalled
    /\ ejer_data.kind = "return"
    /\ ejer_data.dropped >= 1
    /\ len(reclean.df) >= 2

\* the yearly rent of the i-th listing's row
YearlyRentOf(i) == LejeCompleteRows[i][LejeResolved(7)].n

\* C9 (as claimed): the monthly rent of every rental listing is the integer
\* floor of yearly_rent / 12, never rounded up.
C9_MonthlyRentIsFloor ==
    (leje_data.kind = "return") =>
        \A i \in DOMAIN leje_data.value.boliger :
            /\ leje_data.value.boliger[i].leje_maned = YearlyRentOf(i) \div 12
            /\ 12 * leje_data.value.boliger[i].leje_maned <= YearlyRentOf(i)

\* C9 (amended): the monthly rent is the integer obtained by dropping the
\* fraction of yearly_rent / 12 (truncation toward zero): the floor, never
\* rounded up, for a yearly rent that is not negative (120000 gives 10000,
\* 100000 gives 8333), and the ceiling for a negative one.
C9_MonthlyRentTruncated ==
    (leje_data.kind = "return") =>
        \A i \in DOMAIN leje_data.value.boliger :
            LET m == leje_data.value.boliger[i].leje_maned
                y == YearlyRentOf(i)
            IN  /\ m \in Int
                /\ y >= 0 => (12 * m <= y /\ y < 12 * (m + 1))
                /\ y < 0 => (12 * (m - 1) < y /\ y <= 12 * m)
                /\ y = 120000 => m = 10000
                /\ y = 100000 => m = 8333

\* C9 witness: a listing of yearly rent 100000 next to one of 120000.
C9_Witness ==
    /\ leje_data.kind = "return"
    /\ \E i, j \in DOMAIN leje_data.value.boliger :
          /\ YearlyRentOf(i) = 100000
          /\ leje_data.value.boliger[i].leje_maned = 8333
          /\ YearlyRentOf(j) = 120000
          /\ leje_data.value.boliger[j].leje_maned = 10000

(***************************************************************************)
(* Claims about the statistics                                             *)
(***************************************************************************)
\* the result of the pipeline that is loaded
ThisRun == IF leje_sheet # NotLoaded THEN leje_data ELSE ejer_data

\* the statistics of a result: everything it returns but the listings
StatsFields(r) == DOMAIN r.value \ {"boliger"}

NonIncreasing(hist) == \A i, j \in DOMAIN hist : i < j => hist[i].antal >= hist[j].antal

\* C5 (as claimed): the statistics of a run on the same rows in another order
\* are identical, the order of the histogram entries included.
C5_StatsIdentical ==
    (prev_data.kind = "return" /\ ThisRun.kind = "return") =>
        \A f \in StatsFields(ThisRun) : ThisRun.value[f] = prev_data.value[f]

\* C5 (amended): on the same rows in another order both pipelines return the
\* same count, means, median, map center and room histogram, and a city
\* histogram of the same entries in descending order of count; the order of
\* cities with equal counts may differ between the two runs.
C5_StatsOrderIndependent ==
    (prev_data.kind = "return" /\ ThisRun.kind = "return") =>
        /\ \A f \in StatsFields(ThisRun) \ {"by_data"} :
              ThisRun.value[f] = prev_data.value[f]
        /\ Range(ThisRun.value.by_data) = Range(prev_data.value.by_data)
        /\ Len(ThisRun.value.by_data) = Len(prev_data.value.by_data)
        /\ NonIncreasing(ThisRun.value.by_data)
        /\ NonIncreasing(prev_data.value.by_data)

\* C5 witness: two runs on three rows in different orders, the rows differing
\* in city, room count and amount.
C5_Witness ==
    /\ prev_data.kind = "return"
    /\ ThisRun.kind = "return"
    /\ ThisRun.value.total_boliger = 3
    /\ ThisRun.value.boliger # prev_data.value.boliger
    /\ Len(ThisRun.value.by_data) = 2
    /\ Len(ThisRun.value.vaerelser_data) = 2
    /\ ThisRun.value.gns_areal = prev_data.value.gns_areal

\* the cities of the listings, and how many listings a city has
CitiesOf(boliger) == {boliger[i].by : i \in DOMAIN boliger}
ListingsIn(boliger, by) == Cardinality({i \in DOMAIN boliger : boliger[i].by = by})
FirstListingIn(boliger, by) ==
    CHOOSE i \in DOMAIN boliger :
        boliger[i].by = by /\ \A j \in 1..(i - 1) : boliger[j].by # by

\* one entry per distinct city with its number of listings
ExactCityCounts(r) ==
    /\ {r.value.by_data[i].by : i \in DOMAIN r.value.by_data} = CitiesOf(r.value.boliger)
    /\ Len(r.value.by_data) = Cardinality(CitiesOf(r.value.boliger))
    /\ \A i \in DOMAIN r.value.by_data :
          r.value.by_data[i].antal = ListingsIn(r.value.boliger, r.value.by_data[i].by)

\* C7 (as claimed): the city histogram has one entry per distinct city with
\* its exact count, in descending order of count, and entries of equal count
\* in the order in which their city is first met in the cleaned rows.
C7_CityHistogramTiesFirstMet ==
    (ThisRun.kind = "return") =>
        /\ ExactCityCounts(ThisRun)
        /\ NonIncreasing(ThisRun.value.by_data)
        /\ \A i, j \in DOMAIN ThisRun.value.by_data :
              (i < j /\ ThisRun.value.by_data[i].antal = ThisRun.value.by_data[j].antal) =>
                  FirstListingIn(ThisRun.value.boliger, ThisRun.value.by_data[i].by)
                      < FirstListingIn(ThisRun.value.boliger, ThisRun.value.by_data[j].by)

\* C7 (amended): the city histogram of either pipeline has one entry per
\* distinct city of the cleaned rows with its exact row count, in descending
\* order of count; the order of entries with equal counts is not determined.
C7_CityHistogramDescending ==
    (ThisRun.kind = "return") =>
        /\ ExactCityCounts(ThisRun)
        /\ NonIncreasing(ThisRun.value.by_data)

\* C7 witness: the city met second has more listings and is listed first.
C7_Witness ==
    /\ ThisRun.kind = "return"
    /\ Len(ThisRun.value.by_data) = 2
    /\ ThisRun.value.by_data[1].antal = 2
    /\ ThisRun.value.by_data[2].antal = 1
    /\ ThisRun.value.boliger[1].by = ThisRun.value.by_data[2].by

\* the room counts of the listings
RoomsOf(boliger) == {boliger[i].varelser : i \in DOMAIN boliger}

\* C8: the room histogram of either pipeline has exactly one entry per
\* distinct room count of the cleaned rows, each with the number of cleaned
\* rows of that room count, in strictly ascending order of room count.
C8_RoomHistogramAscending ==
    (ThisRun.kind = "return") =>
        LET hist == ThisRun.value.vaerelser_data
            boliger == ThisRun.value.boliger
        IN  /\ {hist[i].varelser : i \in DOMAIN hist} = RoomsOf(boliger)
            /\ \A i \in DOMAIN hist :
                  hist[i].antal =
                      Cardinality({k \in DOMAIN boliger : boliger[k].varelser = hist[i].varelser})
            /\ \A i, j \in DOMAIN hist : i < j => hist[i].varelser < hist[j].varelser

\* C8 witness: rental rows of room counts 3, 2, 2 give [{2: 2}, {3: 1}].
C8_Witness ==
    /\ leje_data.kind = "return"
    /\ [i \in DOMAIN leje_data.value.boliger |-> leje_data.value.boliger[i].varelser]
          = <<3, 2, 2>>
    /\ leje_data.value.vaerelser_data
          = <<[varelser |-> 2, antal |-> 2], [varelser |-> 3, antal |-> 1]>>

(***************************************************************************)
(* The address helpers                                                     *)
(***************************************************************************)
\* the maximal runs of non-blank characters of text, each as <<first, last>>
RunsOf(text) ==
    {r \in (DOMAIN text) \X (DOMAIN text) :
        /\ r[1] <= r[2]
        /\ \A p \in r[1]..r[2] : text[p] # " "
        /\ r[1] = 1 \/ text[r[1] - 1] = " "
        /\ r[2] = Len(text) \/ text[r[2] + 1] = " "}

WordCount(text) == Cardinality(RunsOf(text))

\* the n-th run of text
NthWord(text, n) ==
    LET r == CHOOSE r \in RunsOf(text) :
                Cardinality({q \in RunsOf(text) : q[1] < r[1]}) = n - 1
    IN  SubSeq(text, r[1], r[2])

HasComma(text) == \E i \in DOMAIN text : text[i] = ","

\* what follows the last "," of a text that has one
LastPart(text) ==
    LET k == CHOOSE k \in DOMAIN text :
                text[k] = "," /\ \A j \in (k + 1)..Len(text) : text[j] # ","
    IN  SubSeq(text, k + 1, Len(text))

\* words joined by single blanks: no blank at either end, no two in a row
SingleSpaced(text) ==
    /\ text # <<>> => text[1] # " " /\ text[Len(text)] # " "
    /\ \A p \in 1..(Len(text) - 1) : ~(text[p] = " " /\ text[p + 1] = " ")

\* a trade text with two or more comma-separated parts whose last part has
\* more than one word
HasCity(cell) ==
    cell.t = "str" /\ HasComma(cell.s) /\ WordCount(LastPart(cell.s)) > 1

T_KobenhavnN == <<"K", "ø", "b", "e", "n", "h", "a", "v", "n", " ", "N">>

\* C11: for a trade text with at least two comma-separated parts whose last
\* part has more than one word, parse_city_from_handelsnavn returns the words
\* of the part after the last comma without the first of them, in their
\* order and joined by single blanks; "Griffenfeldsgade 4B, 2200 København N"
\* gives "København N".
C11_CityAfterLastComma ==
    (ad_city # NotCalled /\ HasCity(ad_text)) =>
        /\ ad_city.kind = "return"
        /\ SingleSpaced(ad_city.value)
        /\ WordCount(ad_city.value) = WordCount(LastPart(ad_text.s)) - 1
        /\ \A n \in 1..WordCount(ad_city.value) :
              NthWord(ad_city.value, n) = NthWord(LastPart(ad_text.s), n + 1)
        /\ ad_text = Str(T_Griffenfeldsgade) => ad_city.value = T_KobenhavnN

\* the city of a text with two commas has been taken from behind the second
C11_Witness ==
    /\ ad_text = Str(T_SecondFloor)
    /\ ad_city # NotCalled
    /\ ad_city.value = <<"K", "b", "h", " ", "N">>

T_Unknown == <<"U", "n", "k", "n", "o", "w", "n">>

\* C12 as stated: for a missing cell or a text, the call returns, and it
\* returns the text "Unknown" exactly when the cell is missing or empty, has
\* fewer than two comma-separated parts, or has a last part of at most one
\* word.
C12_UnknownExactlyWhen ==
    (ad_city # NotCalled /\ ad_text.t # "num") =>
        /\ ad_city.kind = "return"
        /\ ad_city.value = T_Unknown <=> ~HasCity(ad_text)

\* C12: for a missing cell or a text, parse_city_from_handelsnavn never
\* raises; it returns the text "Ukendt" whenever the cell is missing or
\* empty, has fewer than two comma-separated parts, or has a last part of at
\* most one word, and otherwise only when the city behind the postal code is
\* itself the one word "Ukendt".
C12_UkendtWhenNoCity ==
    (ad_city # NotCalled /\ ad_text.t # "num") =>
        /\ ad_city.kind = "return"
        /\ ~HasCity(ad_text) => ad_city.value = T_Ukendt
        /\ (HasCity(ad_text) /\ ad_city.value = T_Ukendt) =>
              /\ WordCount(LastPart(ad_text.s)) = 2
              /\ NthWord(LastPart(ad_text.s), 2) = T_Ukendt

\* a text whose last part is the postal code alone has given "Ukendt"
C12_Witness ==
    /\ ad_text = Str(<<"V", "e", "j", ",", " ", "2", "2", "0", "0">>)
    /\ ad_city # NotCalled
    /\ ad_city.kind = "return"
    /\ ad_city.value = T_Ukendt

\* a letter and the same letter in the other case
SameLetter(a, b) ==
    a = b \/ \E k \in DOMAIN UpperChars : {a, b} = {UpperChars[k], LowerChars[k]}

\* known_addresses[k] is in text, whatever the case of the letters
KeyIn(k, text) ==
    \E i \in 0..(Len(text) - Len(known_addresses[k].addr)) :
        \A p \in DOMAIN known_addresses[k].addr :
            SameLetter(known_addresses[k].addr[p], text[i + p])

\* C13: geocode_address of a text returns the coordinates of the first entry
\* of known_addresses, in the order of its declaration, whose key is in the
\* text whatever the case of the letters, and returns the fallback
\* (55.6761, 12.5683) exactly when no key is in the text.
C13_FirstKnownAddress ==
    (ad_coords # NotCalled /\ ad_text.t = "str") =>
        /\ ad_coords.kind = "return"
        /\ ad_coords.value = fallback_coords
              <=> ~\E k \in DOMAIN known_addresses : KeyIn(k, ad_text.s)
        /\ \A k \in DOMAIN known_addresses :
              (KeyIn(k, ad_text.s) /\ \A j \in 1..(k - 1) : ~KeyIn(j, ad_text.s))
                  => ad_coords.value = known_addresses[k].coords

\* a text that names entry 12 and then, in small letters, entry 11 has been
\* given the coordinates of entry 11
C13_Witness ==
    /\ ad_text = Str(known_addresses[12].addr \o <<" ", "o", "g", " ">>
                        \o lower(known_addresses[11].addr))
    /\ ad_coords # NotCalled
    /\ ad_coords.value = known_addresses[11].coords

(***************************************************************************)
(* A run                                                                   *)
(***************************************************************************)
\* the three steps of the try block completed
AllStepsCompleted ==
    /\ leje_data.kind = "return"
    /\ ejer_data.kind = "return"
    /\ m_calls = <<"process_leje_data", "process_ejer_data", "generate_html">>
    /\ \E f \in m_files : f.name = "output_html"

\* one of the three steps raised
SomeStepRaised ==
    \/ leje_data.kind = "raise"
    \/ ejer_data.kind = "raise"
    \/ "generate_html" \in Range(m_calls) /\ ~\E f \in m_files : f.name = "output_html"

\* C14: main exits with status 1 whenever a find_column call raised its
\* KeyError or anything else was raised in process_leje_data,
\* process_ejer_data or generate_html, and ends with status 0 only when all
\* three steps completed.
C14_ExitStatus ==
    (m_front = "cli" /\ m_pc = "done") =>
        /\ m_end.kind = "exit"
        /\ m_end.status \in {0, 1}
        /\ SomeStepRaised => m_end.status = 1
        /\ m_end.status = 0 => AllStepsCompleted

\* the ownership pipeline found no price column after the rental pipeline
\* had returned, and main left with status 1
C14_Witness ==
    /\ m_front = "cli"
    /\ m_pc = "done"
    /\ leje_data.kind = "return"
    /\ ejer_data.kind = "raise"
    /\ ejer_data.exc.type = "KeyError"
    /\ m_end = [kind |-> "exit", status |-> 1]

\* s is the first Len(s) elements of t
IsPrefix(s, t) == Len(s) <= Len(t) /\ SubSeq(t, 1, Len(s)) = s

\* C17: on the command line and on the upload page, generate_html is
\* invoked only after process_leje_data and then process_ejer_data have
\* returned; if either of them raises, the run fails outright: generate_html
\* is never invoked and no output file is written.
C17_HtmlOnlyAfterBothPipelines ==
    /\ IsPrefix(m_calls, <<"process_leje_data", "process_ejer_data", "generate_html">>)
    /\ (m_pc = "html" \/ "generate_html" \in Range(m_calls)) =>
          leje_data.kind = "return" /\ ejer_data.kind = "return"
    /\ "process_ejer_data" \in Range(m_calls) => leje_data.kind = "return"
    /\ (leje_data.kind = "raise" \/ ejer_data.kind = "raise") =>
          /\ m_pc = "done"
          /\ m_end = Failed(m_front)
          /\ "generate_html" \notin Range(m_calls)
          /\ \A f \in m_files : f.name \in {"tmp_leje.xlsx", "tmp_ejer.xlsx"}

\* on the upload page the ownership pipeline raised after the rental
\* pipeline had returned: the error box is shown, generate_html was not
\* invoked and the only files are the two saved uploads
C17_Witness ==
    /\ m_front = "ui"
    /\ leje_data.kind = "return"
    /\ ejer_data.kind = "raise"
    /\ m_calls = <<"process_leje_data", "process_ejer_data">>
    /\ m_end = [kind |-> "error-box"]
    /\ m_files = {[name |-> "tmp_leje.xlsx"], [name |-> "tmp_ejer.xlsx"]}

(***************************************************************************)
(* Rows with missing fields                                                *)
(***************************************************************************)
\* find_column finds each required column of the loaded table
RequiredResolve ==
    IF leje_sheet # NotLoaded
    THEN \A k \in DOMAIN LejeRequired : FirstPresent(LejeRequired[k], leje_sheet.columns) # 0
    ELSE \A k \in DOMAIN EjerRequired :
            FirstPresent(EjerRequired[k], ejer_book.sheets[ejer_book.sheet_names[1]].columns) # 0

\* C15: a row with missing required fields never makes process_leje_data or
\* process_ejer_data raise: on a table whose required columns resolve no run
\* ends in the AttributeError of a missing cell, also not for an ownership
\* row whose trade name is missing while the coordinates are geocoded.
C15_MissingRowsNeverRaise ==
    (ThisRun.kind = "raise" /\ RequiredResolve) => ThisRun.exc.type # "AttributeError"

\* the required fields of the table a pipeline cleans
CleanSubset == IF leje_sheet # NotLoaded THEN LejeSubset ELSE EjerSubset

\* C18: in both pipelines the chart renderers are called after the cleaning
\* step and with the cleaned table: no row with a missing required field is
\* passed to them, and the rows they see are exactly the rows the listings
\* and the statistics are computed from.
C18_RenderedTableIsCleaned ==
    (ThisRun.kind = "return") =>
        /\ \A i \in 1..len(ThisRun.rendered) :
              \A c \in CleanSubset : notna(ThisRun.rendered.rows[i][c])
        /\ ThisRun.rendered.rows = ThisRun.df.rows

\* C19: after the coordinates are resolved in process_ejer_data, every row
\* with a trade name has a latitude and a longitude: a missing entry of
\* either column is filled from geocode_address of the trade name.
C19_CoordinatesFilled ==
    (ejer_data.kind = "return") =>
        \A i \in 1..len(ejer_data.rendered) :
            notna(ejer_data.rendered.rows[i]["Handelsnavn"]) =>
                /\ notna(ejer_data.rendered.rows[i]["lat"])
                /\ notna(ejer_data.rendered.rows[i]["lng"])

(***************************************************************************)
(* Optional columns and sheets                                             *)
(***************************************************************************)
\* C16: the absence of an optional column is never an error: for every
\* workbook whose required columns resolve, whatever optional columns,
\* optional sheets and merge-key columns its sheets have or lack, no column
\* lookup of process_ejer_data fails with a KeyError.
C16_OptionalNeverAnError ==
    (ejer_data.kind = "raise" /\ RequiredResolve) => ejer_data.exc.type # "KeyError"

PrimarySheet == ejer_book.sheets[ejer_book.sheet_names[1]]

\* the 'Enheder' sheet is there and has a room count column
UnitsRoomColumn ==
    /\ "Enheder" \in Range(ejer_book.sheet_names)
    /\ \E n \in Range(EnhederRoomNames) : HasColumn(ejer_book.sheets["Enheder"], n)

\* the 'Enheder' sheet can be merged: both sheets have the key
UnitsMerged ==
    /\ "Enheder" \in Range(ejer_book.sheet_names)
    /\ HasColumn(ejer_book.sheets["Enheder"], "Handels-ID")
    /\ HasColumn(PrimarySheet, "Handels-ID")

\* the first sheet has a room count column
PrimaryRoomColumn ==
    \E n \in {"Antal Værelser"} \cup Range(EjerRoomNames) : HasColumn(PrimarySheet, n)

\* the cell of column col in the row of sheet with the trade id, or missing
CellByTrade(sheet, id, col) ==
    IF \E r \in Range(sheet.rows) : r["Handels-ID"] = id
    THEN (CHOOSE r \in Range(sheet.rows) : r["Handels-ID"] = id)[col]
    ELSE NaN

\* the room count the priority gives row i of the first sheet
RoomsByPriority(i) ==
    IF UnitsRoomColumn /\ UnitsMerged
    THEN CellByTrade(ejer_book.sheets["Enheder"], PrimarySheet.rows[i]["Handels-ID"],
                     CHOOSE n \in Range(EnhederRoomNames) :
                        HasColumn(ejer_book.sheets["Enheder"], n))
    ELSE IF PrimaryRoomColumn
    THEN PrimarySheet.rows[i][CHOOSE n \in {"Antal Værelser"} \cup Range(EjerRoomNames) :
                                 HasColumn(PrimarySheet, n)]
    ELSE Num(estimate_rooms(PrimarySheet.rows[i]["Enhedsareal"]))

\* C20: the room count of process_ejer_data is, in this priority, the column
\* of the 'Enheder' merge, else a room count column of the first sheet, else
\* the estimate from the area; the estimate is used only when neither sheet
\* has a room count column, and with a column a row without a room count
\* stays without one (and is dropped) instead of getting the estimate.
\* every listing has the estimate for 80 m2 although the first sheet and the
\* 'Enheder' sheet both have the room count column 'Antal Værelser'
EstimateDespiteColumns ==
    /\ ejer_data.kind = "return"
    /\ UnitsMerged
    /\ HasColumn(ejer_book.sheets["Enheder"], "Antal Værelser")
    /\ HasColumn(PrimarySheet, "Antal Værelser")
    /\ \A i \in DOMAIN ejer_data.value.boliger : ejer_data.value.boliger[i].varelser = 4

\* the merge of the 'Ejendomme' sheet failed on a first sheet without the key
YearMergeWithoutKey ==
    /\ ejer_data = Raise("KeyError")
    /\ ~HasColumn(PrimarySheet, "Handels-ID")
    /\ "Enheder" \notin Range(ejer_book.sheet_names)
    /\ "Ejendomme" \in Range(ejer_book.sheet_names)

C20_RoomCountPriority ==
    (ejer_data.kind = "return" /\ len(ejer_data.rendered) = len(PrimarySheet)) =>
        \A i \in 1..len(ejer_data.rendered) :
            /\ ejer_data.rendered.rows[i]["Antal Værelser"] = RoomsByPriority(i)
            /\ (UnitsRoomColumn \/ PrimaryRoomColumn) =>
                  ejer_data.rendered.rows[i]["Antal Værelser"]
                      # Num(estimate_rooms(PrimarySheet.rows[i]["Enhedsareal"]))

(***************************************************************************)
(* Temporary files of the upload page                                      *)
(***************************************************************************)
\* C30: on the upload page every temporary file created during a generation
\* attempt (the two saved uploads and the output page) has been deleted
\* when the attempt ends, whether it succeeded or failed.
C30_TempFilesDeleted ==
    (m_front = "ui" /\ m_pc = "done") => m_files = {}

(***************************************************************************)
(* Tables without a complete row                                           *)
(***************************************************************************)
\* the loaded table has no row that survives the cleaning step: the rental
\* sheet has no complete row, the ownership sheet has no row at all
NothingToList ==
    IF leje_sheet # NotLoaded THEN Len(LejeCompleteRows) = 0
    ELSE len(PrimarySheet) = 0

\* C26: when the cleaning step drops every row, or the input has no rows,
\* both pipelines still complete and return a count of 0, empty listings and
\* empty histograms.
C26_EmptyTableCompletes ==
    (ThisRun # NotCalled /\ RequiredResolve /\ NothingToList) =>
        /\ ThisRun.kind = "return"
        /\ ThisRun.value.total_boliger = 0
        /\ ThisRun.value.boliger = <<>>
        /\ ThisRun.value.vaerelser_data = <<>>
        /\ ThisRun.value.by_data = <<>>

(***************************************************************************)
(* Counts of a successful run                                              *)
(***************************************************************************)
\* the first sheet of the loaded workbook, or the loaded rental sheet
InputTable == IF leje_sheet # NotLoaded THEN leje_sheet ELSE PrimarySheet

\* the rows of the table before the cleaning step that miss no required
\* field, in their order
KeptRows(r) ==
    SelectSeq(r.rendered.rows, LAMBDA row : \A c \in CleanSubset : notna(row[c]))

\* the listing of a row
BoligOf(row) == IF leje_sheet # NotLoaded THEN LejeBolig(row) ELSE EjerBolig(row)

RECURSIVE SumAntal(_)
SumAntal(hist) == IF hist = <<>> THEN 0 ELSE Head(hist).antal + SumAntal(Tail(hist))

\* C29: for every successful run the count equals the number of listings
\* and the number of rows before cleaning minus the drop count, the room
\* histogram counts sum to the count, the city histogram counts sum to the
\* count, and the listings are the kept rows in the order of the input rows.
C29_CountsAgree ==
    (ThisRun.kind = "return") =>
        /\ ThisRun.value.total_boliger = Len(ThisRun.value.boliger)
        /\ len(ThisRun.rendered) = len(InputTable)
        /\ Len(ThisRun.value.boliger) = len(ThisRun.rendered) - ThisRun.dropped
        /\ SumAntal(ThisRun.value.vaerelser_data) = ThisRun.value.total_boliger
        /\ SumAntal(ThisRun.value.by_data) = ThisRun.value.total_boliger
        /\ Len(KeptRows(ThisRun)) = Len(ThisRun.value.boliger)
        /\ \A i \in DOMAIN ThisRun.value.boliger :
              ThisRun.value.boliger[i] = BoligOf(KeptRows(ThisRun)[i])

\* an ownership run that dropped a row and listed two trades of different
\* cities and room counts
C29_Witness ==
    /\ ejer_data.kind = "return"
    /\ ejer_data.dropped = 1
    /\ Len(ejer_data.value.boliger) = 2
    /\ ejer_data.value.boliger[1].by # ejer_data.value.boliger[2].by
    /\ ejer_data.value.boliger[1].varelser # ejer_data.value.boliger[2].varelser
    /\ Len(ejer_data.value.by_data) = 2

(***************************************************************************)
(* The merges of the optional sheets                                       *)
(***************************************************************************)
\* the column of the 'Enheder' sheet found for a field (434-450)
UnitsColumn(names) == FirstOf(names, ejer_book.sheets["Enheder"].columns)

\* the value the 'Enheder' sheet holds for the trade of row i of the first
\* sheet, missing when the sheet has no row of that trade
UnitsValue(i, names) ==
    CellByTrade(ejer_book.sheets["Enheder"], PrimarySheet.rows[i]["Handels-ID"],
                UnitsColumn(names).s)

\* row i of the table before cleaning holds the 'Enheder' value of a
\* coordinate, in the merged column and for a matched row in the column std
UnitsCoordinate(i, names, std) ==
    UnitsColumn(names) # PyNone =>
        /\ HasColumn(ejer_data.rendered, UnitsColumn(names).s)
        /\ ejer_data.rendered.rows[i][UnitsColumn(names).s] = UnitsValue(i, names)
        /\ notna(UnitsValue(i, names)) =>
              ejer_data.rendered.rows[i][std] = UnitsValue(i, names)

\* C21: the merge of the 'Enheder' sheet is a left join on the trade id:
\* every row of the first sheet is kept, a row without a match gets a
\* missing value for each merged field (room count, latitude, longitude),
\* and a matched row gets the 'Enheder' values of those of the three fields
\* that the 'Enheder' sheet has.
C21_UnitsLeftJoin ==
    (ejer_data.kind = "return" /\ UnitsMerged
        /\ len(ejer_data.rendered) = len(PrimarySheet)) =>
        \A i \in 1..len(PrimarySheet) :
            /\ \A c \in {"Handels-ID", "Handelsnavn", "Pris"} :
                  ejer_data.rendered.rows[i][c] = PrimarySheet.rows[i][c]
            /\ UnitsColumn(EnhederRoomNames) # PyNone =>
                  ejer_data.rendered.rows[i]["Antal Værelser"]
                      = UnitsValue(i, EnhederRoomNames)
            /\ UnitsCoordinate(i, EnhederLatNames, "lat")
            /\ UnitsCoordinate(i, EnhederLngNames, "lng")

\* C25: the merges of the 'Enheder' and 'Ejendomme' sheets never change the
\* number of rows: the listings plus the dropped rows are the rows of the
\* first sheet, also when an optional sheet holds several rows of one trade.
C25_MergesKeepRowCount ==
    (ejer_data.kind = "return") =>
        /\ len(ejer_data.rendered) = len(PrimarySheet)
        /\ Len(ejer_data.value.boliger) + ejer_data.dropped = len(PrimarySheet)

(***************************************************************************)
(* The rental pipeline on sheets with optional columns                     *)
(***************************************************************************)
\* the yearly rents and the stated monthly rents of the complete rows
YearlyOfKept == [i \in DOMAIN LejeCompleteRows |-> LejeCompleteRows[i][LejeResolved(7)]]
StatedMonthlyOfKept == [i \in DOMAIN LejeCompleteRows |-> LejeCompleteRows[i]["Leje/måned"]]

\* the monthly rents the listings carry
ListedMonthly == [i \in DOMAIN leje_data.value.boliger |->
                     Num(leje_data.value.boliger[i].leje_maned)]

\* int() of the mean and of the median of numeric cells
IntMean(cells) == TruncDiv(SumCells(cells), Len(cells))
IntMedian(cells) == TruncDiv(median(cells).num, median(cells).den)

\* C22: process_leje_data derives the monthly rent as the yearly rent / 12
\* only if the sheet has no monthly rent column; when the sheet has one, its
\* values are what the listings and the monthly rent statistics report, and
\* the derivation does not replace them.
C22_StatedMonthlyRentReported ==
    (leje_data.kind = "return") =>
        IF HasColumn(leje_sheet, "Leje/måned")
        THEN /\ \A i \in 1..len(leje_sheet) :
                   leje_data.rendered.rows[i]["Leje/måned"] = leje_sheet.rows[i]["Leje/måned"]
             /\ ListedMonthly = StatedMonthlyOfKept
             /\ leje_data.value.gns_leje = IntMean(StatedMonthlyOfKept)
             /\ leje_data.value.median_leje = IntMedian(StatedMonthlyOfKept)
        ELSE \A i \in DOMAIN ListedMonthly :
                ListedMonthly[i].n = TruncDiv(YearlyOfKept[i].n, 12)

\* C23 as stated: gns_leje is the truncated mean and median_leje the
\* truncated median of the monthly rents the returned listings carry, and
\* gns_leje_m2 and gns_areal are the truncated means of the listings' rent
\* per m2 and area.
C23_StatsFromListings ==
    (leje_data.kind = "return") =>
        /\ leje_data.value.gns_leje = IntMean(ListedMonthly)
        /\ leje_data.value.median_leje = IntMedian(ListedMonthly)
        /\ leje_data.value.gns_leje_m2
              = IntMean([i \in DOMAIN ListedMonthly |-> Num(leje_data.value.boliger[i].leje_m2)])
        /\ leje_data.value.gns_areal
              = IntMean([i \in DOMAIN ListedMonthly |-> Num(leje_data.value.boliger[i].areal)])

\* C23: the rental statistics are computed from the cleaned table and not
\* from the listings: gns_leje is the truncated mean and median_leje the
\* truncated median of the untruncated yearly rent / 12 of the kept rows, so
\* for rents that are not negative gns_leje is the truncated mean of the
\* listings' monthly rents or one more; gns_leje_m2 and gns_areal are the
\* truncated means of the kept rows' rent per m2 and area.
C23_StatsFromCleanedTable ==
    (leje_data.kind = "return") =>
        /\ leje_data.value.gns_leje = TruncDiv(SumCells(YearlyOfKept), 12 * Len(YearlyOfKept))
        /\ leje_data.value.median_leje
              = TruncDiv(median(YearlyOfKept).num, 12 * median(YearlyOfKept).den)
        /\ leje_data.value.gns_leje - IntMean(ListedMonthly) \in {0, 1}
        /\ leje_data.value.median_leje - IntMedian(ListedMonthly) \in {0, 1}
        /\ leje_data.value.gns_leje_m2
              = IntMean([i \in DOMAIN LejeCompleteRows |-> LejeCompleteRows[i][LejeResolved(6)]])
        /\ leje_data.value.gns_areal
              = IntMean([i \in DOMAIN LejeCompleteRows |-> LejeCompleteRows[i][LejeResolved(5)]])

\* two listings of 8333 and 8334 a month (100002 / 12 = 8333.5 and
\* 100014 / 12 = 8334.5): their mean is 8333.5, the reported mean is 8334
C23_Witness ==
    /\ leje_data.kind = "return"
    /\ Len(leje_data.value.boliger) = 2
    /\ leje_data.value.boliger[1].leje_maned = 8333
    /\ leje_data.value.boliger[2].leje_maned = 8334
    /\ leje_data.value.gns_leje = 8334
    /\ leje_data.value.median_leje = 8334

\* the construction year and property type columns find_column-style loops
\* find in the loaded rental sheet (298-308)
YearColumn == FirstOf(LejeYearNames, leje_sheet.columns)
TypeColumn == FirstOf(LejeTypeNames, leje_sheet.columns)

\* every listing has no construction year where the sheet has no such column
\* or the cell is missing, and the property type default where the sheet has
\* no such column or the cell is missing; otherwise it has the cell's value
OptionalDefaults(default) ==
    (leje_data.kind = "return") =>
        \A i \in DOMAIN leje_data.value.boliger :
            /\ leje_data.value.boliger[i].opfoerelsesaar
                  = IF YearColumn = PyNone \/ isna(LejeCompleteRows[i][YearColumn.s])
                    THEN PyNone
                    ELSE Num(LejeCompleteRows[i][YearColumn.s].n)
            /\ leje_data.value.boliger[i].boligtype
                  = IF TypeColumn = PyNone \/ isna(LejeCompleteRows[i][TypeColumn.s])
                    THEN default
                    ELSE LejeCompleteRows[i][TypeColumn.s].s

T_NotSpecified == <<"N", "o", "t", " ", "s", "p", "e", "c", "i", "f", "i", "e", "d">>

\* C24 as stated: without a construction year column every listing has no
\* construction year, without a property type column every listing has the
\* property type "Not specified"; with the column, a missing property type
\* cell also gives "Not specified" and a missing year cell gives none.
C24_DefaultNotSpecified == OptionalDefaults(T_NotSpecified)

\* C24: without a construction year column every listing has no
\* construction year, without a property type column every listing has the
\* property type "Ikke angivet"; with the column, a missing property type
\* cell also gives "Ikke angivet" and a missing year cell gives none.
C24_DefaultIkkeAngivet == OptionalDefaults(T_IkkeAngivet)

\* a sheet without the two columns gave a listing without a year and with
\* the default type
C24_Witness ==
    /\ leje_data.kind = "return"
    /\ YearColumn = PyNone
    /\ TypeColumn = PyNone
    /\ Len(leje_data.value.boliger) >= 1
    /\ leje_data.value.boliger[1].opfoerelsesaar = PyNone
    /\ leje_data.value.boliger[1].boligtype = T_IkkeAngivet

(***************************************************************************)
(* The filters of the report page                                          *)
(***************************************************************************)
\* C27: after any sequence of toggleFilter, resetFilters, switchMode and
\* year slider events, the listings updateDisplay selects are the listings
\* updateInteractiveCharts selects, also when every value of a filter group
\* has been deselected.
C27_DisplayAndChartsAgree ==
    (filtered # NotCalled) => filtered.display = filtered.charts

\* C28: allBoliger is always the listings of currentMode, and right after
\* switchMode(m) or resetFilters() every listing of the current mode passes
\* the filter of updateDisplay: all values of a discrete filter are selected
\* and the year range covers every construction year.
C28_AllListingsAfterReset ==
    /\ currentMode \in {"leje", "ejer"} => allBoliger = DataOf(currentMode)
    /\ js_event \in {"switchMode", "resetFilters"} =>
          /\ filtered.display = allBoliger
          /\ \A b \in Range(allBoliger) :
                /\ includes(selectedFilters.varelser, b.varelser)
                /\ includes(selectedFilters.by, b.by)
                /\ includes(selectedFilters.type, typeValue(currentMode, b))
                /\ aarMatch(b, selectedFilters)

\* the page switched to an ownership listing without a construction year
\* while the year range of the two rental listings is still set: the
\* listing is shown
C28_Witness ==
    /\ js_event = "switchMode"
    /\ currentMode = "ejer"
    /\ Len(lejeData) = 2
    /\ Len(allBoliger) = 1
    /\ YearsOf(allBoliger) = {}
    /\ selectedFilters.aarMin # null
    /\ ~year_slider.shown
    /\ filtered.display = allBoliger

====
